---------------------------- MODULE Spec2Model ----------------------------
(***************************************************************************)
(* Application discovery, deduplication, scan cache and launcher of the    *)
(* agent_open_launcher package (enhanced_app_scanner.py,                   *)
(* enhanced_app_launcher.py and their cross-platform twins).               *)
(*                                                                         *)
(* Strings of the program are sequences of one-character strings, so that  *)
(* str.lower(), comparison and containment are computed, not assumed.      *)
(***************************************************************************)
EXTENDS Integers, Sequences, FiniteSets, TLC

VARIABLES
    \* ---- aggregator (_process_and_deduplicate applied to one input list)
    dd_apps,          \* the candidate list handed to _process_and_deduplicate
    dd_max_apps,      \* config["max_apps"]
    dd_result,        \* the list it returned
    dd_pc,            \* "build" while the list is assembled, "done" after the call
    dd_find           \* the last find_app call: its arguments and what it returned

ddVars == <<dd_apps, dd_max_apps, dd_result, dd_pc, dd_find>>

VARIABLES
    \* ---- scan cache (EnhancedAppScanner / CrossPlatformAppScanner)
    now,              \* time.time()
    cache_enabled,    \* config["cache_enabled"]
    scan_completed,   \* self._scan_completed
    last_scan_time,   \* self._last_scan_time
    scan_lock,        \* self._scan_lock: [locked, waiters]
    apps_cache,       \* self.apps_cache
    app_name_map,     \* self.app_name_map, a dict in insertion order
    cache_file,       \* app_cache.json: [exists, timestamp, apps]
    pc,               \* per caller: "idle", "waiting" (on the lock), "scanning"
    op,               \* per caller: "ensure" or "refresh"
    force_refresh,    \* per caller: the force_refresh argument
    current_time,     \* per caller: the local current_time of ensure_scan_completed
    \* ---- history variables of the scan cache (not program state)
    last_done,        \* the time at which the most recent scan completed
    joined,           \* per caller: it entered while an unforced scan was in flight
    overlapped,       \* per caller: it entered while a scan of ensure_scan_completed ran
    loaded,           \* what the last call of _load_cache returned ("none": no call yet)
    error_count,      \* _scan_stats["error_count"]
    gathered,         \* what asyncio.gather returned to the last scan (<<>>: no scan yet)
    scan_raised,      \* the last call of _scan_all_sources that ended raised
    measured,         \* per caller: an unforced call that entered with the cache
                      \* READY, caching enabled and no other call in progress
    ttl_stale_skipped \* such a call, more than ttl after the last scan, started none

scVars == <<now, cache_enabled, scan_completed, last_scan_time, scan_lock,
            apps_cache, app_name_map, cache_file, pc, op, force_refresh,
            current_time, last_done, joined, overlapped, loaded, error_count, gathered, scan_raised, measured, ttl_stale_skipped>>

VARIABLES
    \* ---- launcher (EnhancedAppLauncher)
    config,            \* self.config (the keys launch_app reads)
    os_type,          \* platform.os_type of the machine the launcher runs on
    processes,         \* the operating system's live processes
    next_pid,          \* the pid the next spawned process gets
    launch_history,    \* self.launch_history
    running_processes, \* self.running_processes: the set of its entries
    la_pc,             \* where launch_app is: "idle", "attempt", "startup_wait",
                       \* "backoff", "done", "raised"
    app_info,          \* launch_app's app_info
    elevated,          \* launch_args["elevated"]
    retry_count,       \* launch_app's retry_count
    last_error,        \* launch_app's last_error
    proc,              \* the strategy's proc while it waits for the startup
    status,            \* the LaunchStatus launch_app returned
    \* ---- history variables of the launcher (not program state)
    recorded,          \* how many entries _record_launch has appended so far
    la_calls,          \* how many launch_app calls were made
    la_matching,       \* the live processes that matched app_info at the check
    la_outcomes,       \* what each strategy invocation of this call did
    history_view,      \* the last get_launch_history call: its limit and its result
    monitor_task,      \* whether the task of _monitor_processes exists
    second             \* a second launch_app call in progress: its locals

laVars == <<config, os_type, processes, next_pid, launch_history, running_processes,
            la_pc, app_info, elevated, retry_count, last_error, proc, status,
            recorded, la_calls, la_matching, la_outcomes, history_view, monitor_task, second>>

VARIABLES
    \* ---- facade (RobustAppLauncherAgent)
    config_keys,       \* the keys of the config dict the agent, its launcher and
                       \* the scanner share
    debug_mode,        \* self.config["debug_mode"]
    initialized,       \* self.initialized
    warmup,            \* the task initialize creates: "none", "pending", "done"
    stats,             \* self.stats: the three request counters
    fa_pc,             \* where handle_handoff is: "idle", "received",
                       \* "launching", "returned", "raised"
    fa_data,           \* handle_handoff's data
    fa_request_id,     \* handle_handoff's request_id
    fa_response,       \* the envelope handle_handoff returned
    \* ---- history variable of the facade (not program state)
    fa_calls           \* how many handle_handoff calls were made

faVars == <<config_keys, debug_mode, initialized, warmup, stats, fa_pc, fa_data, fa_request_id,
            fa_response, fa_calls>>

vars == <<ddVars, scVars, laVars, faVars>>

(***************************************************************************)
(* Characters and strings                                                  *)
(***************************************************************************)
UpperSeq == <<"A", "B", "C", "D", "E", "N", "O", "P", "Q", "T", "X">>
LowerSeq == <<"a", "b", "c", "d", "e", "n", "o", "p", "q", "t", "x">>

\* Code-point order of the characters used ('.' < '/' < 'A'..'Z' < 'a'..'z').
CharOrder == <<".", "/">> \o UpperSeq \o LowerSeq

Ord(c) == CHOOSE i \in DOMAIN CharOrder : CharOrder[i] = c

\* str.lower() on one character
LowerChar(c) ==
    IF \E i \in DOMAIN UpperSeq : UpperSeq[i] = c
    THEN LowerSeq[CHOOSE i \in DOMAIN UpperSeq : UpperSeq[i] = c]
    ELSE c

\* str.lower()
Lower(s) == [i \in DOMAIN s |-> LowerChar(s[i])]

\* Python's s < t on strings: lexicographic by code point, a proper prefix first
RECURSIVE StrLess(_, _)
StrLess(s, t) ==
    IF t = <<>> THEN FALSE
    ELSE IF s = <<>> THEN TRUE
    ELSE IF Ord(Head(s)) # Ord(Head(t)) THEN Ord(Head(s)) < Ord(Head(t))
    ELSE StrLess(Tail(s), Tail(t))

(***************************************************************************)
(* AppSource, AppInfo                                                      *)
(***************************************************************************)
AppSource ==
    {"registry_app_paths", "registry_uninstall", "registry_user_uninstall",
     "shortcut_start_menu", "shortcut_desktop", "shortcut_common"}

\* AppInfo(...) with __post_init__: an absent display_name becomes the name
AppInfo(n, p, s, d) ==
    [name |-> n, path |-> p, source |-> s,
     display_name |-> IF d = <<>> THEN n ELSE d]

\* The files that exist on disk (os.path.exists)
FileSystem ==
    {<<"p">>, <<"q">>,
     <<"d", "/", "n", ".", "e", "x", "e">>, <<"d", "/", "b", ".", "e", "x", "e">>,
     <<"d", "/", "c">>,
     <<"d", "/", "n", "o", "t", "e", "p", "a", "d", ".", "e", "x", "e">>}

PathExists(p) == p \in FileSystem

(***************************************************************************)
(* _get_source_priority                                                    *)
(***************************************************************************)
\* A priority table with the shortcut and registry-uninstall ranks exchanged
GetSourcePriority_Swapped(source) ==
    CASE source = "shortcut_start_menu"     -> 2
      [] source = "shortcut_desktop"        -> 2
      [] source = "shortcut_common"         -> 2
      [] source = "registry_app_paths"      -> 3
      [] source = "registry_uninstall"      -> 4
      [] source = "registry_user_uninstall" -> 1
      [] OTHER                              -> 0

GetSourcePriority(source) ==
    CASE source = "shortcut_start_menu"     -> 4
      [] source = "shortcut_desktop"        -> 4
      [] source = "shortcut_common"         -> 4
      [] source = "registry_app_paths"      -> 3
      [] source = "registry_uninstall"      -> 2
      [] source = "registry_user_uninstall" -> 1
      [] OTHER                              -> 0

(***************************************************************************)
(* _process_and_deduplicate                                                *)
(*                                                                         *)
(* unique_apps is a Python dict: a sequence of <<key, app>> in insertion   *)
(* order; assigning to an existing key keeps the key's position.           *)
(***************************************************************************)
DictHas(d, k) == \E i \in DOMAIN d : d[i][1] = k

DictGet(d, k) == d[CHOOSE i \in DOMAIN d : d[i][1] = k][2]

DictSet(d, k, v) ==
    IF DictHas(d, k)
    THEN [i \in DOMAIN d |-> IF d[i][1] = k THEN <<k, v>> ELSE d[i]]
    ELSE Append(d, <<k, v>>)

DictValues(d) == [i \in DOMAIN d |-> d[i][2]]

\* A path filter that forgets the seen-path check
SkippedByPath_NoSeen(app, seen_paths) ==
    \/ app.path = <<>>
    \/ ~PathExists(app.path)

\* The path filter: whether the loop skips this record before it looks at its name
SkippedByPath(app, seen_paths) ==
    \/ app.path = <<>>
    \/ ~PathExists(app.path)
    \/ app.path \in seen_paths

\* key = app.name without .lower()
NameKey_CaseSensitive(app) == app.name

\* key = app.name.lower()
NameKey(app) == Lower(app.name)

\* The priority comparison with >= for >
Replaces_OrEqual(app, existing) ==
    GetSourcePriority(app.source) >= GetSourcePriority(existing.source)

\* A later record always replaces the stored one
Replaces_LastWins(app, existing) == TRUE

\* Whether a record replaces the one already stored under its key
Replaces(app, existing) ==
    GetSourcePriority(app.source) > GetSourcePriority(existing.source)

\* The for-loop over apps: st = [unique_apps, seen_paths]
RECURSIVE DedupLoop(_, _, _)
DedupLoop(apps, i, st) ==
    IF i > Len(apps) THEN st
    ELSE LET app == apps[i]
             key == NameKey(app)
         IN IF SkippedByPath(app, st.seen_paths)
            THEN DedupLoop(apps, i + 1, st)
            ELSE LET seen == st.seen_paths \cup {app.path}
                     uniq == IF ~DictHas(st.unique_apps, key)
                             THEN DictSet(st.unique_apps, key, app)
                             ELSE IF Replaces(app, DictGet(st.unique_apps, key))
                                  THEN DictSet(st.unique_apps, key, app)
                                  ELSE st.unique_apps
                 IN DedupLoop(apps, i + 1,
                              [unique_apps |-> uniq, seen_paths |-> seen])

\* list.sort(key=lambda x: x.display_name.lower()): a stable insertion sort
RECURSIVE InsertSorted(_, _)
InsertSorted(sorted, app) ==
    IF sorted = <<>> THEN <<app>>
    ELSE IF StrLess(Lower(app.display_name), Lower(Head(sorted).display_name))
         THEN <<app>> \o sorted
         ELSE <<Head(sorted)>> \o InsertSorted(Tail(sorted), app)

RECURSIVE SortByDisplayName(_, _)
SortByDisplayName(apps, i) ==
    IF i = 0 THEN <<>>
    ELSE InsertSorted(SortByDisplayName(apps, i - 1), apps[i])

\* result[:max_apps] when len(result) > max_apps
Truncate(result, max_apps) ==
    IF Len(result) > max_apps THEN SubSeq(result, 1, max_apps) ELSE result

\* The records that survive the loop, before the sort and the cut
Survivors(apps) ==
    DictValues(DedupLoop(apps, 1, [unique_apps |-> <<>>, seen_paths |-> {}]).unique_apps)

ProcessAndDeduplicate(apps, max_apps) ==
    LET result == Survivors(apps)
    IN Truncate(SortByDisplayName(result, Len(result)), max_apps)


(***************************************************************************)
(* The aggregator on its own: one candidate list is assembled record by    *)
(* record from a small universe, then _process_and_deduplicate is called.  *)
(***************************************************************************)
MaxListLen == 3

\* config["max_apps"]: the default, and a small value that makes the cut happen
MaxAppsDefault == 1000
MaxAppsSmall == 1

DdNames == {<<"A">>, <<"a">>, <<"b">>}
DdPaths == {<<"p">>, <<"q">>, <<"g">>}
DdSources == {"shortcut_desktop", "registry_uninstall"}

\* Candidate records: every name, path and source, and two records whose
\* display name differs from their name
DdRecords ==
    {AppInfo(n, p, s, <<>>) : n \in DdNames, p \in DdPaths, s \in DdSources}
    \cup {AppInfo(<<"b">>, <<"q">>, s, <<"A">>) : s \in DdSources}

\* Before any list is assembled
DdStart ==
    /\ dd_apps = <<>>
    /\ dd_result = <<>>
    /\ dd_pc = "build"
    /\ dd_find = [name |-> <<>>, fuzzy |-> FALSE, found |-> <<>>]

\* A source scanner contributes one more candidate record
DdAdd(r) ==
    /\ dd_pc = "build"
    /\ Len(dd_apps) < MaxListLen
    /\ dd_apps' = Append(dd_apps, r)
    /\ UNCHANGED <<dd_max_apps, dd_result, dd_pc, dd_find>>
    /\ UNCHANGED <<scVars, laVars, faVars>>

\* unique_apps = self._process_and_deduplicate(apps)
DdRun ==
    /\ dd_pc = "build"
    /\ dd_result' = ProcessAndDeduplicate(dd_apps, dd_max_apps)
    /\ dd_pc' = "done"
    /\ UNCHANGED <<dd_apps, dd_max_apps, dd_find>>
    /\ UNCHANGED <<scVars, laVars, faVars>>

DdNext ==
    \/ \E r \in DdRecords : DdAdd(r)
    \/ DdRun

(***************************************************************************)
(* CrossPlatformAppScanner: its AppSource has three more members and its   *)
(* _get_source_priority its own table; _process_and_deduplicate is the     *)
(* same loop, sort and cut.                                                *)
(***************************************************************************)
CrossAppSource ==
    AppSource \cup {"desktop_entry", "applications_directory", "bin_directory"}

CrossGetSourcePriority(source) ==
    CASE source = "desktop_entry"           -> 5
      [] source = "applications_directory"  -> 5
      [] source = "shortcut_start_menu"     -> 4
      [] source = "shortcut_desktop"        -> 4
      [] source = "shortcut_common"         -> 4
      [] source = "registry_app_paths"      -> 3
      [] source = "registry_uninstall"      -> 2
      [] source = "registry_user_uninstall" -> 1
      [] source = "bin_directory"           -> 2
      [] OTHER                              -> 0

CrossReplaces(app, existing) ==
    CrossGetSourcePriority(app.source) > CrossGetSourcePriority(existing.source)

RECURSIVE CrossDedupLoop(_, _, _)
CrossDedupLoop(apps, i, st) ==
    IF i > Len(apps) THEN st
    ELSE LET app == apps[i]
             key == Lower(app.name)
         IN IF SkippedByPath(app, st.seen_paths)
            THEN CrossDedupLoop(apps, i + 1, st)
            ELSE LET seen == st.seen_paths \cup {app.path}
                     uniq == IF ~DictHas(st.unique_apps, key)
                             THEN DictSet(st.unique_apps, key, app)
                             ELSE IF CrossReplaces(app, DictGet(st.unique_apps, key))
                                  THEN DictSet(st.unique_apps, key, app)
                                  ELSE st.unique_apps
                 IN CrossDedupLoop(apps, i + 1,
                                   [unique_apps |-> uniq, seen_paths |-> seen])

CrossProcessAndDeduplicate(apps, max_apps) ==
    LET result == DictValues(CrossDedupLoop(apps, 1,
                      [unique_apps |-> <<>>, seen_paths |-> {}]).unique_apps)
    IN Truncate(SortByDisplayName(result, Len(result)), max_apps)

\* Candidate records of every source under one name
CrossDdRecords ==
    {AppInfo(<<"a">>, p, s, <<>>) : p \in {<<"p">>, <<"q">>}, s \in CrossAppSource}

\* unique_apps = self._process_and_deduplicate(apps)
CrossDdRun ==
    /\ dd_pc = "build"
    /\ dd_result' = CrossProcessAndDeduplicate(dd_apps, dd_max_apps)
    /\ dd_pc' = "done"
    /\ UNCHANGED <<dd_apps, dd_max_apps, dd_find>>
    /\ UNCHANGED <<scVars, laVars, faVars>>

CrossDdNext ==
    \/ \E r \in CrossDdRecords : DdAdd(r)
    \/ CrossDdRun

(***************************************************************************)
(* _build_name_map                                                         *)
(***************************************************************************)
ExeSuffix == <<".", "e", "x", "e">>

\* str.endswith
EndsWith(s, suffix) ==
    /\ Len(s) >= Len(suffix)
    /\ SubSeq(s, Len(s) - Len(suffix) + 1, Len(s)) = suffix

\* The three assignments _build_name_map makes for one record
NameMapAdd(map, app) ==
    LET m1 == DictSet(map, Lower(app.name), app)
        m2 == IF Lower(app.display_name) # Lower(app.name)
              THEN DictSet(m1, Lower(app.display_name), app)
              ELSE m1
        name_no_ext == Lower(SubSeq(app.name, 1, Len(app.name) - 4))
    IN IF EndsWith(Lower(app.name), ExeSuffix) /\ ~DictHas(m2, name_no_ext)
       THEN DictSet(m2, name_no_ext, app)
       ELSE m2

RECURSIVE BuildNameMap(_, _)
BuildNameMap(apps, i) ==
    IF i = 0 THEN <<>>
    ELSE NameMapAdd(BuildNameMap(apps, i - 1), apps[i])

(***************************************************************************)
(* The scan cache: ensure_scan_completed, refresh_apps, _scan_all_sources  *)
(*                                                                         *)
(* The callers are coroutines of one event loop: the code between two      *)
(* awaits that suspend is one step.  ensure_scan_completed suspends on the *)
(* lock and, inside _scan_all_sources, on asyncio.gather.                  *)
(***************************************************************************)
NumCallers == 2
Callers == 1..NumCallers

\* config["cache_ttl"], scaled down, and the clock's range
CacheTtl == 1
ExtraTime == 1
StartTime == CacheTtl + 1
MaxTime == StartTime + CacheTtl + ExtraTime

\* What the source scanners can return to one scan
ScanInputs ==
    { <<AppInfo(<<"a">>, <<"p">>, "registry_uninstall", <<>>),
        AppInfo(<<"A">>, <<"q">>, "shortcut_desktop", <<>>)>>,
      <<AppInfo(<<"b">>, <<"q">>, "registry_app_paths", <<>>)>> }

\* The same, and the scan that finds no application
CacheScanInputs == ScanInputs \cup {<<>>}

\* json.dump of the cache data into the file opened for writing.  Every
\* record holds its source as an AppSource member, which json cannot
\* serialise: with one record or more json.dump raises TypeError after the
\* timestamp and the start of the first record were written, _save_cache
\* logs the error, and the file is left truncated (no JSON document).
JsonDump(timestamp, apps, errors) ==
    [exists |-> TRUE, valid |-> apps = <<>>, timestamp |-> timestamp, apps |-> <<>>,
     error_count |-> IF apps = <<>> THEN errors ELSE 0]

\* need_scan, as both checks of ensure_scan_completed compute it
NeedScan(force, ctime) ==
    \/ ~scan_completed
    \/ force
    \/ (cache_enabled /\ ctime - last_scan_time > CacheTtl)

\* An acquire that never finds the lock taken
LockFree_Ignored == TRUE

\* asyncio.Lock.acquire succeeds at once only when the lock is free and
\* nobody is queued for it
LockFree == ~scan_lock.locked /\ scan_lock.waiters = <<>>

\* Whether a scan of ensure_scan_completed, forced or not, is in flight
EnsureScanInFlight == \E d \in Callers : pc[d] = "scanning" /\ op[d] = "ensure"

\* Whether an unforced scan of ensure_scan_completed is in flight
UnforcedScanInFlight ==
    \E d \in Callers : pc[d] = "scanning" /\ op[d] = "ensure" /\ ~force_refresh[d]

\* No other call is in progress
Quiescent(c) == \A d \in Callers \ {c} : pc[d] = "idle"

\* ensure_scan_completed(force), up to its first suspension
EnsureScanCompleted(c, force) ==
    /\ pc[c] = "idle"
    /\ LET alone == scan_completed /\ cache_enabled /\ ~force /\ Quiescent(c)
           stale == alone /\ now - last_done > CacheTtl
       IN IF ~NeedScan(force, now)
          THEN \* need_scan is False: return
               /\ ttl_stale_skipped' = (ttl_stale_skipped \/ stale)
               /\ UNCHANGED <<scan_lock, pc, op, force_refresh, current_time,
                              joined, overlapped, loaded, error_count, gathered, scan_raised, measured>>
          ELSE /\ op' = [op EXCEPT ![c] = "ensure"]
               /\ force_refresh' = [force_refresh EXCEPT ![c] = force]
               /\ current_time' = [current_time EXCEPT ![c] = now]
               /\ joined' = [joined EXCEPT ![c] = ~force /\ UnforcedScanInFlight]
               /\ overlapped' = [overlapped EXCEPT ![c] = EnsureScanInFlight]
               /\ UNCHANGED <<loaded, error_count, gathered, scan_raised>>
               /\ IF LockFree
                  THEN \* lock taken, second check as the first: scan
                       /\ scan_lock' = [scan_lock EXCEPT !.locked = TRUE]
                       /\ pc' = [pc EXCEPT ![c] = "scanning"]
                  ELSE /\ scan_lock' = [scan_lock EXCEPT
                                           !.waiters = Append(@, c)]
                       /\ pc' = [pc EXCEPT ![c] = "waiting"]
               /\ measured' = [measured EXCEPT ![c] = alone]
               /\ UNCHANGED ttl_stale_skipped
    /\ UNCHANGED <<now, cache_enabled, scan_completed, last_scan_time,
                   apps_cache, app_name_map, cache_file, last_done>>
    /\ UNCHANGED <<ddVars, laVars, faVars>>

\* get_apps(force_refresh): ensure_scan_completed, then a copy of apps_cache
GetApps(c, force) == EnsureScanCompleted(c, force)

\* find_app and get_app_info_for_llm start with ensure_scan_completed()
FindAppCall(c) == EnsureScanCompleted(c, FALSE)

GetAppInfoForLlm(c) == EnsureScanCompleted(c, FALSE)

\* refresh_apps, up to its first suspension
RefreshApps(c) ==
    /\ pc[c] = "idle"
    /\ op' = [op EXCEPT ![c] = "refresh"]
    /\ force_refresh' = [force_refresh EXCEPT ![c] = FALSE]
    /\ IF LockFree
       THEN /\ scan_lock' = [scan_lock EXCEPT !.locked = TRUE]
            /\ scan_completed' = FALSE
            /\ pc' = [pc EXCEPT ![c] = "scanning"]
       ELSE /\ scan_lock' = [scan_lock EXCEPT !.waiters = Append(@, c)]
            /\ pc' = [pc EXCEPT ![c] = "waiting"]
            /\ UNCHANGED scan_completed
    /\ UNCHANGED <<now, cache_enabled, last_scan_time, apps_cache, app_name_map,
                   cache_file, current_time, last_done, joined, overlapped, loaded, error_count, gathered, scan_raised,
                   measured, ttl_stale_skipped>>
    /\ UNCHANGED <<ddVars, laVars, faVars>>

\* A second check that returns without releasing the lock
LockGranted_KeepsLock(c) ==
    /\ pc[c] = "waiting"
    /\ ~scan_lock.locked
    /\ scan_lock.waiters # <<>>
    /\ Head(scan_lock.waiters) = c
    /\ IF op[c] = "refresh"
       THEN /\ scan_lock' = [locked |-> TRUE, waiters |-> Tail(scan_lock.waiters)]
            /\ scan_completed' = FALSE
            /\ pc' = [pc EXCEPT ![c] = "scanning"]
            /\ UNCHANGED <<force_refresh, current_time, joined, overlapped, loaded, error_count, gathered, scan_raised, measured>>
       ELSE IF NeedScan(force_refresh[c], current_time[c])
            THEN \* the second check still asks for a scan
                 /\ scan_lock' = [locked |-> TRUE, waiters |-> Tail(scan_lock.waiters)]
                 /\ pc' = [pc EXCEPT ![c] = "scanning"]
                 /\ UNCHANGED <<scan_completed, force_refresh, current_time, joined, overlapped, loaded, error_count, gathered, scan_raised,
                                measured>>
            ELSE \* nothing to do: the lock is released again and the call returns
                 /\ scan_lock' = [locked |-> TRUE, waiters |-> Tail(scan_lock.waiters)]
                 /\ pc' = [pc EXCEPT ![c] = "idle"]
                 /\ force_refresh' = [force_refresh EXCEPT ![c] = FALSE]
                 /\ current_time' = [current_time EXCEPT ![c] = 0]
                 /\ joined' = [joined EXCEPT ![c] = FALSE]
                 /\ overlapped' = [overlapped EXCEPT ![c] = FALSE]
                 /\ UNCHANGED <<loaded, error_count, gathered, scan_raised>>
                 /\ measured' = [measured EXCEPT ![c] = FALSE]
                 /\ UNCHANGED scan_completed
    /\ UNCHANGED <<now, cache_enabled, last_scan_time, apps_cache, app_name_map,
                   cache_file, op, last_done, ttl_stale_skipped>>
    /\ UNCHANGED <<ddVars, laVars, faVars>>

\* The released lock wakes its first waiter, which takes it and goes on
LockGranted(c) ==
    /\ pc[c] = "waiting"
    /\ ~scan_lock.locked
    /\ scan_lock.waiters # <<>>
    /\ Head(scan_lock.waiters) = c
    /\ IF op[c] = "refresh"
       THEN /\ scan_lock' = [locked |-> TRUE, waiters |-> Tail(scan_lock.waiters)]
            /\ scan_completed' = FALSE
            /\ pc' = [pc EXCEPT ![c] = "scanning"]
            /\ UNCHANGED <<force_refresh, current_time, joined, overlapped, loaded, error_count, gathered, scan_raised, measured>>
       ELSE IF NeedScan(force_refresh[c], current_time[c])
            THEN \* the second check still asks for a scan
                 /\ scan_lock' = [locked |-> TRUE, waiters |-> Tail(scan_lock.waiters)]
                 /\ pc' = [pc EXCEPT ![c] = "scanning"]
                 /\ UNCHANGED <<scan_completed, force_refresh, current_time, joined, overlapped, loaded, error_count, gathered, scan_raised,
                                measured>>
            ELSE \* nothing to do: the lock is released again and the call returns
                 /\ scan_lock' = [locked |-> FALSE, waiters |-> Tail(scan_lock.waiters)]
                 /\ pc' = [pc EXCEPT ![c] = "idle"]
                 /\ force_refresh' = [force_refresh EXCEPT ![c] = FALSE]
                 /\ current_time' = [current_time EXCEPT ![c] = 0]
                 /\ joined' = [joined EXCEPT ![c] = FALSE]
                 /\ overlapped' = [overlapped EXCEPT ![c] = FALSE]
                 /\ UNCHANGED <<loaded, error_count, gathered, scan_raised>>
                 /\ measured' = [measured EXCEPT ![c] = FALSE]
                 /\ UNCHANGED scan_completed
    /\ UNCHANGED <<now, cache_enabled, last_scan_time, apps_cache, app_name_map,
                   cache_file, op, last_done, ttl_stale_skipped>>
    /\ UNCHANGED <<ddVars, laVars, faVars>>

\* _save_cache: the file's timestamp is self._last_scan_time as it is when
\* _scan_all_sources calls it
SaveCache(apps) == JsonDump(last_scan_time, apps, error_count)

\* _load_cache: a missing file, a file json.load rejects and a timestamp
\* older than cache_ttl return False and leave the scanner as it is;
\* otherwise the records of the file replace apps_cache and the name index
\* is rebuilt
LoadCache ==
    /\ IF /\ cache_file.exists
          /\ cache_file.valid
          /\ ~(now - cache_file.timestamp > CacheTtl)
       THEN /\ apps_cache' = cache_file.apps
            /\ app_name_map' = BuildNameMap(cache_file.apps, Len(cache_file.apps))
            /\ error_count' = cache_file.error_count
            /\ loaded' = "true"
       ELSE /\ loaded' = "false"
            /\ UNCHANGED <<apps_cache, app_name_map, error_count>>
    /\ UNCHANGED <<now, cache_enabled, scan_completed, last_scan_time, scan_lock,
                   cache_file, pc, op, force_refresh, current_time, last_done,
                   joined, overlapped, gathered, scan_raised, measured, ttl_stale_skipped>>
    /\ UNCHANGED <<ddVars, laVars, faVars>>

\* What asyncio.gather(*tasks, return_exceptions=True) hands back for one
\* task: the list the source scanner returned, or the exception it raised
TaskFailed == [failed |-> TRUE, apps |-> <<>>]

\* The results gathered up to the first exception only
RECURSIVE GatheredApps_AbortOnError(_)
GatheredApps_AbortOnError(task_results) ==
    IF task_results = <<>> \/ Head(task_results).failed THEN <<>>
    ELSE Head(task_results).apps \o GatheredApps_AbortOnError(Tail(task_results))

\* The loop over the results: apps.extend(result) for every list
RECURSIVE GatheredApps(_)
GatheredApps(task_results) ==
    IF task_results = <<>> THEN <<>>
    ELSE LET r == Head(task_results)
         IN (IF r.failed THEN <<>> ELSE r.apps) \o GatheredApps(Tail(task_results))

\* The loop over the results: error_count += 1 for every exception
FailedCount(task_results) ==
    Cardinality({i \in DOMAIN task_results : task_results[i].failed})

\* asyncio.gather returns: the rest of _scan_all_sources, then the rest of
\* the caller (ensure_scan_completed or refresh_apps), then the lock's release
ScanGathered(c, task_results) ==
    /\ pc[c] = "scanning"
    /\ LET errors == error_count + FailedCount(task_results)
           unique_apps == ProcessAndDeduplicate(GatheredApps(task_results),
                                                MaxAppsDefault)
       IN /\ error_count' = errors
          /\ gathered' = task_results
          /\ scan_raised' = FALSE
          /\ apps_cache' = unique_apps
          /\ app_name_map' = BuildNameMap(unique_apps, Len(unique_apps))
          /\ cache_file' = IF cache_enabled
                           THEN JsonDump(last_scan_time, unique_apps, errors)
                           ELSE cache_file
    /\ scan_completed' = TRUE
    /\ last_scan_time' = IF op[c] = "ensure" THEN current_time[c]
                                              ELSE last_scan_time
    /\ scan_lock' = [scan_lock EXCEPT !.locked = FALSE]
    /\ pc' = [pc EXCEPT ![c] = "idle"]
    /\ op' = [op EXCEPT ![c] = "ensure"]
    /\ force_refresh' = [force_refresh EXCEPT ![c] = FALSE]
    /\ current_time' = [current_time EXCEPT ![c] = 0]
    /\ joined' = [joined EXCEPT ![c] = FALSE]
    /\ overlapped' = [overlapped EXCEPT ![c] = FALSE]
    /\ UNCHANGED loaded
    /\ measured' = [measured EXCEPT ![c] = FALSE]
    /\ last_done' = now
    /\ UNCHANGED <<now, cache_enabled, ttl_stale_skipped>>
    /\ UNCHANGED <<ddVars, laVars, faVars>>

\* The scan in which one task returned the list results
ScanAllSourcesDone(c, results) ==
    ScanGathered(c, <<[failed |-> FALSE, apps |-> results]>>)

\* _scan_all_sources raises with the lock kept by its caller
ScanRaised_KeepsLock(c) ==
    /\ pc[c] = "scanning"
    /\ scan_raised' = TRUE
    /\ pc' = [pc EXCEPT ![c] = "idle"]
    /\ op' = [op EXCEPT ![c] = "ensure"]
    /\ force_refresh' = [force_refresh EXCEPT ![c] = FALSE]
    /\ current_time' = [current_time EXCEPT ![c] = 0]
    /\ joined' = [joined EXCEPT ![c] = FALSE]
    /\ overlapped' = [overlapped EXCEPT ![c] = FALSE]
    /\ measured' = [measured EXCEPT ![c] = FALSE]
    /\ UNCHANGED <<now, cache_enabled, scan_completed, last_scan_time, scan_lock, apps_cache,
                   app_name_map, cache_file, last_done, loaded, error_count,
                   gathered, ttl_stale_skipped>>
    /\ UNCHANGED <<ddVars, laVars, faVars>>

\* _scan_all_sources raises before it assigns self.apps_cache: a KeyError of
\* one of its self.config[...] lookups, or the CancelledError delivered at
\* `await asyncio.gather(...)`.  The caller's lines after the await are
\* skipped (ensure_scan_completed leaves _scan_completed and _last_scan_time
\* as they were, refresh_apps has set _scan_completed = False before the call)
\* and the exit of `async with self._scan_lock` releases the lock.
ScanRaised(c) ==
    /\ pc[c] = "scanning"
    /\ scan_raised' = TRUE
    /\ scan_lock' = [scan_lock EXCEPT !.locked = FALSE]
    /\ pc' = [pc EXCEPT ![c] = "idle"]
    /\ op' = [op EXCEPT ![c] = "ensure"]
    /\ force_refresh' = [force_refresh EXCEPT ![c] = FALSE]
    /\ current_time' = [current_time EXCEPT ![c] = 0]
    /\ joined' = [joined EXCEPT ![c] = FALSE]
    /\ overlapped' = [overlapped EXCEPT ![c] = FALSE]
    /\ measured' = [measured EXCEPT ![c] = FALSE]
    /\ UNCHANGED <<now, cache_enabled, scan_completed, last_scan_time, apps_cache,
                   app_name_map, cache_file, last_done, loaded, error_count,
                   gathered, ttl_stale_skipped>>
    /\ UNCHANGED <<ddVars, laVars, faVars>>

\* Time passes
Tick ==
    /\ now < MaxTime
    /\ now' = now + 1
    /\ UNCHANGED <<cache_enabled, scan_completed, last_scan_time, scan_lock,
                   apps_cache, app_name_map, cache_file, pc, op, force_refresh,
                   current_time, last_done, joined, overlapped, loaded, error_count, gathered, scan_raised, measured,
                   ttl_stale_skipped>>
    /\ UNCHANGED <<ddVars, laVars, faVars>>

\* EnhancedAppScanner.__init__
ScStart ==
    /\ now = StartTime
    /\ scan_completed = FALSE
    /\ last_scan_time = 0
    /\ scan_lock = [locked |-> FALSE, waiters |-> <<>>]
    /\ apps_cache = <<>>
    /\ app_name_map = <<>>
    /\ cache_file = [exists |-> FALSE, valid |-> FALSE, timestamp |-> 0, apps |-> <<>>,
                     error_count |-> 0]
    /\ pc = [c \in Callers |-> "idle"]
    /\ op = [c \in Callers |-> "ensure"]
    /\ force_refresh = [c \in Callers |-> FALSE]
    /\ current_time = [c \in Callers |-> 0]
    /\ last_done = 0
    /\ joined = [c \in Callers |-> FALSE]
    /\ overlapped = [c \in Callers |-> FALSE]
    /\ loaded = "none"
    /\ error_count = 0
    /\ gathered = <<>>
    /\ scan_raised = FALSE
    /\ measured = [c \in Callers |-> FALSE]
    /\ ttl_stale_skipped = FALSE

(***************************************************************************)
(* EnhancedAppLauncher: what launch_app reads                              *)
(***************************************************************************)
\* Optional[AppInfo] = None
NoneApp == [name |-> <<>>, path |-> <<>>, source |-> "none", display_name |-> <<>>]

\* last_error = None; str(None) is "None"
NoError == [type |-> "None", text |-> "None"]

\* str(exception)
Str(e) == e.text

\* LaunchStatus(...): an absent process_id is 0, an absent string is ""
LaunchStatus(result, app_name, process_id, error_details, launch_method) ==
    [result |-> result, app_name |-> app_name, process_id |-> process_id,
     error_details |-> error_details, launch_method |-> launch_method]

NoStatus == LaunchStatus("none", <<>>, 0, "", "")

\* The locals of a launch_app call that has not started
NoSecond ==
    [pc |-> "idle", app_info |-> NoneApp, retry_count |-> 0, last_error |-> NoError,
     proc |-> 0, status |-> NoStatus]

ExeN == <<"d", "/", "n", ".", "e", "x", "e">>
ExeB == <<"d", "/", "b", ".", "e", "x", "e">>
PathC == <<"d", "/", "c">>

\* The sources launch_app starts through the shortcut
IsShortcut(app) ==
    app.source \in {"shortcut_start_menu", "shortcut_desktop", "shortcut_common"}

\* What the scanner found before the launcher is used
LaCatalog ==
    << AppInfo(<<"n">>, ExeN, "registry_app_paths", <<>>),
       AppInfo(<<"b">>, ExeB, "shortcut_desktop", <<>>),
       AppInfo(<<"c">>, PathC, "registry_uninstall", <<>>) >>

\* The names launch_app is asked for; the last one is no application
LaNames == {<<"n">>, <<"B">>, <<"c">>, <<"x">>}

\* str.__contains__
Contains(sub, s) ==
    \E i \in 0..(Len(s) - Len(sub)) : SubSeq(s, i + 1, i + Len(sub)) = sub

\* The fuzzy test in one direction only: the query inside the key
FuzzyHit_OneWay(name_lower, entry) == Contains(name_lower, entry[1])

\* The test find_app makes on one entry of app_name_map when fuzzy
FuzzyHit(name_lower, entry) ==
    \/ Contains(name_lower, entry[1])
    \/ Contains(entry[1], name_lower)
    \/ Contains(name_lower, Lower(entry[2].display_name))
    \/ Contains(Lower(entry[2].display_name), name_lower)

\* find_app once the cache is known to be ready, on a given app_name_map
FindAppIn(name_map, name, fuzzy) ==
    LET name_lower == Lower(name)
        hits == {i \in DOMAIN name_map : FuzzyHit(name_lower, name_map[i])}
    IN IF DictHas(name_map, name_lower)
       THEN DictGet(name_map, name_lower)
       ELSE IF fuzzy /\ hits # {}
            THEN name_map[CHOOSE i \in hits : \A j \in hits : i <= j][2]
            ELSE NoneApp

FindApp(name, fuzzy) == FindAppIn(app_name_map, name, fuzzy)

\* _find_app_info on a given app_name_map
FindAppInfoIn(name_map, app_name) ==
    LET exact == FindAppIn(name_map, app_name, FALSE)
    IN IF exact # NoneApp THEN exact ELSE FindAppIn(name_map, app_name, TRUE)

FindAppInfo(app_name) == FindAppInfoIn(app_name_map, app_name)

\* What os.path and os.access say about the catalog's files
FileTable ==
    { [path |-> ExeN, is_file |-> TRUE, x_ok |-> TRUE, size |-> 1],
      [path |-> ExeB, is_file |-> TRUE, x_ok |-> TRUE, size |-> 1],
      [path |-> PathC, is_file |-> TRUE, x_ok |-> TRUE, size |-> 1],
      [path |-> <<"d", "/", "n", "o", "t", "e", "p", "a", "d", ".", "e", "x", "e">>,
       is_file |-> TRUE, x_ok |-> TRUE, size |-> 1] }

ValidateExecutable(exe_path) ==
    LET known == {f \in FileTable : f.path = exe_path}
        f == CHOOSE g \in known : TRUE
    IN IF known = {} THEN [valid |-> FALSE, details |-> "path"]
       ELSE IF ~f.is_file THEN [valid |-> FALSE, details |-> "path"]
       ELSE IF ~EndsWith(Lower(exe_path), ExeSuffix)
            THEN [valid |-> FALSE, details |-> "extension"]
       ELSE IF ~f.x_ok THEN [valid |-> FALSE, details |-> "file"]
       ELSE IF f.size = 0 THEN [valid |-> FALSE, details |-> "size"]
       ELSE [valid |-> TRUE, details |-> "size"]

\* os.path.basename
Basename(path) ==
    LET slashes == {i \in DOMAIN path : path[i] = "/"}
        last == IF slashes = {} THEN 0
                ELSE CHOOSE i \in slashes : \A j \in slashes : j <= i
    IN SubSeq(path, last + 1, Len(path))

\* The processes that can be started outside the launcher: exe is <<>> where
\* psutil cannot read it
ExternalProcesses ==
    { [pid |-> 1, exe |-> <<"D", "/", "N", ".", "E", "X", "E">>,
       name |-> <<"N", ".", "E", "X", "E">>],
      [pid |-> 2, exe |-> <<>>, name |-> <<"B", ".", "e", "x", "e">>] }

FirstSpawnedPid == 3

\* The two tests _check_if_running makes on one process
ProcMatches(p, app) ==
    \/ p.exe # <<>> /\ Lower(p.exe) = Lower(app.path)
    \/ p.name # <<>> /\ Lower(p.name) = Lower(Basename(app.path))

\* _check_if_running with the exe test only
CheckIfRunning_ExeOnly(app) ==
    LET m == {p \in processes : p.exe # <<>> /\ Lower(p.exe) = Lower(app.path)}
    IN IF m = {} THEN 0
       ELSE (CHOOSE p \in m : \A q \in m : p.pid <= q.pid).pid

\* _check_if_running: psutil.process_iter yields in pid order; None is 0
CheckIfRunning(app) ==
    LET m == {p \in processes : ProcMatches(p, app)}
    IN IF m = {} THEN 0
       ELSE (CHOOSE p \in m : \A q \in m : p.pid <= q.pid).pid

\* The condition of launch_app's while, with <= for <
RetryAllowed_OffByOne(count, max_retries) == count <= max_retries

\* The condition of launch_app's while and of its sleep
RetryAllowed(count, max_retries) == count < max_retries

HistoryCap == 100
HistoryKeep == 50

\* The trim of _record_launch keeping the oldest entries
TrimHistory_KeepOldest(history) ==
    IF Len(history) > HistoryCap
    THEN SubSeq(history, 1, HistoryKeep)
    ELSE history

\* if len(self.launch_history) > 100: self.launch_history = self.launch_history[-50:]
TrimHistory(history) ==
    IF Len(history) > HistoryCap
    THEN SubSeq(history, Len(history) - HistoryKeep + 1, Len(history))
    ELSE history

\* history_entry; time.time() is the number of the record, so that later
\* entries carry later timestamps
HistoryEntry(app, st, timestamp) ==
    [timestamp |-> timestamp, app_name |-> app.display_name, app_path |-> app.path,
     result |-> st.result, process_id |-> st.process_id,
     launch_method |-> st.launch_method]

\* _record_launch: the new launch_history
RecordLaunch(history, log_launch_details, app, st, timestamp) ==
    IF ~log_launch_details THEN history
    ELSE TrimHistory(Append(history, HistoryEntry(app, st, timestamp)))

(***************************************************************************)
(* EnhancedAppLauncher.launch_app                                          *)
(*                                                                         *)
(* One call at a time.  launch_app suspends in the strategy's wait for the *)
(* startup and in the sleep between two attempts; the processes of the     *)
(* machine start and exit on their own at any time.                        *)
(***************************************************************************)
MaxRetries == 3
MaxLaunchCalls == 1

\* The exceptions subprocess.Popen and WScript.Shell raise
Exceptions ==
    { [type |-> "OSError", text |-> "e1"],
      [type |-> "PermissionError", text |-> "e2"] }

\* What the operating system does with one start request
SpawnOutcomes == {[kind |-> "ok", error |-> NoError]}
                 \cup {[kind |-> "raise", error |-> e] : e \in Exceptions}

\* The LaunchStatus built after the while loop
FailedStatus(app, error) ==
    LaunchStatus("failed", app.display_name, 0, Str(error), "")

\* The LaunchStatus a strategy builds once its process is started
SuccessStatus(app, pid) ==
    LaunchStatus("success", app.display_name, pid, "",
                 IF IsShortcut(app) THEN "shortcut" ELSE "direct")

\* A loop that takes a negative status for a failure and tries again
StrategyReturned_RetryNegative(st) ==
    /\ launch_history' = RecordLaunch(launch_history, config.log_launch_details,
                                      app_info, st, recorded + 1)
    /\ recorded' = IF config.log_launch_details THEN recorded + 1 ELSE recorded
    /\ running_processes' =
           IF st.result = "success" /\ st.process_id # 0 /\ config.monitor_processes
           THEN {r \in running_processes : r.pid # st.process_id}
                \cup {[pid |-> st.process_id, name |-> app_info.display_name,
                       path |-> app_info.path]}
           ELSE running_processes
    /\ status' = st
    /\ IF st.result # "success" /\ RetryAllowed(retry_count + 1, config.max_retries)
       THEN la_pc' = "backoff" /\ retry_count' = retry_count + 1
       ELSE la_pc' = "done" /\ retry_count' = retry_count
    /\ UNCHANGED last_error

\* launch_app after the strategy returned st: _record_launch, the entry in
\* running_processes, return
StrategyReturned(st) ==
    /\ launch_history' = RecordLaunch(launch_history, config.log_launch_details,
                                      app_info, st, recorded + 1)
    /\ recorded' = IF config.log_launch_details THEN recorded + 1 ELSE recorded
    /\ running_processes' =
           IF st.result = "success" /\ st.process_id # 0 /\ config.monitor_processes
           THEN {r \in running_processes : r.pid # st.process_id}
                \cup {[pid |-> st.process_id, name |-> app_info.display_name,
                       path |-> app_info.path]}
           ELSE running_processes
    /\ status' = st
    /\ la_pc' = "done"
    /\ UNCHANGED <<retry_count, last_error>>

\* launch_app's except clause after the strategy raised e
StrategyRaised(e) ==
    /\ last_error' = e
    /\ retry_count' = retry_count + 1
    /\ IF RetryAllowed(retry_count + 1, config.max_retries)
       THEN /\ la_pc' = "backoff"
            /\ UNCHANGED status
       ELSE /\ la_pc' = "done"
            /\ status' = FailedStatus(app_info, e)
    /\ UNCHANGED <<launch_history, recorded, running_processes>>

\* launch_app up to the while loop; config["validate_executable"] raises
\* KeyError when the config dict has no such key
LaunchApp(app_name, elev) ==
    /\ la_pc = "idle"
    /\ la_calls < MaxLaunchCalls
    /\ ~NeedScan(FALSE, now)
    /\ la_calls' = la_calls + 1
    /\ LET found == FindAppInfo(app_name)
           validation == ValidateExecutable(found.path)
           running == CheckIfRunning(found)
       IN /\ la_matching' = IF found = NoneApp THEN {}
                            ELSE {p \in processes : ProcMatches(p, found)}
          /\ IF found = NoneApp
             THEN /\ status' = LaunchStatus("not_found", app_name, 0, "", "")
                  /\ la_pc' = "done"
                  /\ UNCHANGED <<app_info, elevated>>
             ELSE IF "validate_executable" \notin config_keys
             THEN /\ la_pc' = "raised"
                  /\ UNCHANGED <<status, app_info, elevated>>
             ELSE IF config.validate_executable /\ ~validation.valid
             THEN /\ status' = LaunchStatus("invalid_path", app_name, 0,
                                            validation.details, "")
                  /\ la_pc' = "done"
                  /\ UNCHANGED <<app_info, elevated>>
             ELSE IF config.check_already_running /\ running # 0
             THEN /\ status' = LaunchStatus("already_running", found.display_name,
                                            running, "", "")
                  /\ la_pc' = "done"
                  /\ UNCHANGED <<app_info, elevated>>
             ELSE /\ app_info' = found
                  /\ elevated' = elev
                  /\ IF RetryAllowed(0, config.max_retries)
                     THEN /\ la_pc' = "attempt"
                          /\ UNCHANGED status
                     ELSE /\ la_pc' = "done"
                          /\ status' = FailedStatus(found, NoError)
    /\ UNCHANGED <<config, os_type, processes, next_pid, launch_history, running_processes,
                   retry_count, last_error, proc, recorded, la_outcomes, history_view, monitor_task, second>>
    /\ UNCHANGED <<ddVars, scVars, faVars>>

\* One pass of the while loop up to the strategy's first suspension:
\* _launch_via_shortcut or _launch_via_executable
Attempt(outcome) ==
    /\ la_pc = "attempt"
    /\ LET raised == outcome.kind = "raise"
           denied == /\ raised
                     /\ outcome.error.type = "PermissionError"
                     /\ ~IsShortcut(app_info)
           spawns == ~raised /\ (IsShortcut(app_info) \/ ~elevated)
       IN /\ history_view' = history_view /\ monitor_task' = monitor_task /\ second' = second /\ la_outcomes' = Append(la_outcomes,
                [kind |-> IF raised /\ ~denied THEN "raise" ELSE "return",
                 result |-> IF ~raised THEN "success"
                            ELSE IF denied THEN "access_denied" ELSE "none",
                 text |-> Str(outcome.error)])
          /\ IF spawns
             THEN /\ processes' = processes \cup
                        {[pid |-> next_pid, exe |-> app_info.path,
                          name |-> Basename(app_info.path)]}
                  /\ next_pid' = next_pid + 1
                  /\ IF config.wait_for_startup
                     THEN /\ proc' = next_pid
                          /\ la_pc' = "startup_wait"
                          /\ UNCHANGED <<launch_history, recorded, running_processes,
                                         status, retry_count, last_error>>
                     ELSE /\ proc' = next_pid
                          /\ StrategyReturned(SuccessStatus(app_info, next_pid))
             ELSE /\ UNCHANGED <<processes, next_pid, proc>>
                  /\ IF ~raised
                     THEN StrategyReturned(
                              LaunchStatus("success", app_info.display_name, 0, "",
                                           "elevated"))
                     ELSE IF denied
                     THEN StrategyReturned(
                              LaunchStatus("access_denied", app_info.display_name, 0,
                                           Str(outcome.error), ""))
                     ELSE StrategyRaised(outcome.error)
    /\ UNCHANGED <<config, os_type, app_info, elevated, la_calls, la_matching>>
    /\ UNCHANGED <<ddVars, scVars, faVars>>

\* _wait_for_process_startup's sleep is over: the strategy returns SUCCESS
StartupWaited ==
    /\ la_pc = "startup_wait"
    /\ StrategyReturned(SuccessStatus(app_info, proc))
    /\ UNCHANGED <<config, os_type, processes, next_pid, app_info, elevated, proc, la_calls,
                   la_matching, la_outcomes, history_view, monitor_task, second>>
    /\ UNCHANGED <<ddVars, scVars, faVars>>

\* asyncio.sleep(1) of the except clause is over: back to the while
BackoffDone ==
    /\ la_pc = "backoff"
    /\ la_pc' = "attempt"
    /\ UNCHANGED <<config, os_type, processes, next_pid, launch_history, running_processes,
                   app_info, elevated, retry_count, last_error, proc, status,
                   recorded, la_calls, la_matching, la_outcomes, history_view, monitor_task, second>>
    /\ UNCHANGED <<ddVars, scVars, faVars>>

\* The caller has the LaunchStatus: launch_app's locals are gone
LaunchReturn ==
    /\ la_pc \in {"done", "raised"}
    /\ la_pc' = "idle"
    /\ app_info' = NoneApp
    /\ elevated' = FALSE
    /\ retry_count' = 0
    /\ last_error' = NoError
    /\ proc' = 0
    /\ status' = NoStatus
    /\ la_matching' = {}
    /\ history_view' = history_view /\ monitor_task' = monitor_task /\ second' = second /\ la_outcomes' = <<>>
    /\ UNCHANGED <<config, os_type, processes, next_pid, launch_history, running_processes,
                   recorded, la_calls>>
    /\ UNCHANGED <<ddVars, scVars, faVars>>

\* The second call after its strategy returned st: _record_launch, the entry
\* in running_processes, return
SecondReturned(st) ==
    /\ launch_history' = RecordLaunch(launch_history, config.log_launch_details,
                                      second.app_info, st, recorded + 1)
    /\ recorded' = IF config.log_launch_details THEN recorded + 1 ELSE recorded
    /\ running_processes' =
           IF st.result = "success" /\ st.process_id # 0 /\ config.monitor_processes
           THEN {r \in running_processes : r.pid # st.process_id}
                \cup {[pid |-> st.process_id, name |-> second.app_info.display_name,
                       path |-> second.app_info.path]}
           ELSE running_processes
    /\ second' = [second EXCEPT !.pc = "done", !.status = st]

\* A second launch_app call, made while the first is suspended or over, up
\* to its while loop.  The coroutines share one event loop: a call runs from
\* one suspension to the next without the other running in between.
SecondLaunchApp(app_name) ==
    /\ second.pc = "idle"
    /\ la_pc # "attempt"
    /\ ~NeedScan(FALSE, now)
    /\ LET found == FindAppInfo(app_name)
           validation == ValidateExecutable(found.path)
           running == CheckIfRunning(found)
       IN second' =
              IF found = NoneApp
              THEN [second EXCEPT !.pc = "done",
                                  !.status = LaunchStatus("not_found", app_name, 0, "", "")]
              ELSE IF config.validate_executable /\ ~validation.valid
              THEN [second EXCEPT !.pc = "done",
                                  !.status = LaunchStatus("invalid_path", app_name, 0,
                                                          validation.details, "")]
              ELSE IF config.check_already_running /\ running # 0
              THEN [second EXCEPT !.pc = "done",
                                  !.status = LaunchStatus("already_running",
                                                          found.display_name, running, "", "")]
              ELSE IF RetryAllowed(0, config.max_retries)
              THEN [second EXCEPT !.pc = "attempt", !.app_info = found]
              ELSE [second EXCEPT !.pc = "done", !.app_info = found,
                                  !.status = FailedStatus(found, NoError)]
    /\ UNCHANGED <<config, os_type, processes, next_pid, launch_history, running_processes,
                   la_pc, app_info, elevated, retry_count, last_error, proc, status,
                   recorded, la_calls, la_matching, la_outcomes, history_view, monitor_task>>
    /\ UNCHANGED <<ddVars, scVars, faVars>>

\* One pass of the second call's while loop up to the strategy's first
\* suspension (elevated is False, the default of elevate_if_needed)
SecondAttempt(outcome) ==
    /\ second.pc = "attempt"
    /\ LET raised == outcome.kind = "raise"
           denied == /\ raised
                     /\ outcome.error.type = "PermissionError"
                     /\ ~IsShortcut(second.app_info)
       IN IF ~raised
          THEN /\ processes' = processes \cup
                     {[pid |-> next_pid, exe |-> second.app_info.path,
                       name |-> Basename(second.app_info.path)]}
               /\ next_pid' = next_pid + 1
               /\ IF config.wait_for_startup
                  THEN /\ second' = [second EXCEPT !.pc = "startup_wait", !.proc = next_pid]
                       /\ UNCHANGED <<launch_history, recorded, running_processes>>
                  ELSE SecondReturned(SuccessStatus(second.app_info, next_pid))
          ELSE /\ UNCHANGED <<processes, next_pid>>
               /\ IF denied
                  THEN SecondReturned(
                           LaunchStatus("access_denied", second.app_info.display_name, 0,
                                        Str(outcome.error), ""))
                  ELSE /\ second' =
                              IF RetryAllowed(second.retry_count + 1, config.max_retries)
                              THEN [second EXCEPT !.pc = "backoff",
                                                  !.retry_count = @ + 1,
                                                  !.last_error = outcome.error]
                              ELSE [second EXCEPT !.pc = "done",
                                                  !.retry_count = @ + 1,
                                                  !.last_error = outcome.error,
                                                  !.status = FailedStatus(second.app_info,
                                                                          outcome.error)]
                       /\ UNCHANGED <<launch_history, recorded, running_processes>>
    /\ UNCHANGED <<config, os_type, la_pc, app_info, elevated, retry_count, last_error, proc,
                   status, la_calls, la_matching, la_outcomes, history_view, monitor_task>>
    /\ UNCHANGED <<ddVars, scVars, faVars>>

\* The second call's wait for the startup is over: SUCCESS
SecondStartupWaited ==
    /\ second.pc = "startup_wait"
    /\ la_pc # "attempt"
    /\ SecondReturned(SuccessStatus(second.app_info, second.proc))
    /\ UNCHANGED <<config, os_type, processes, next_pid, la_pc, app_info, elevated,
                   retry_count, last_error, proc, status, la_calls, la_matching,
                   la_outcomes, history_view, monitor_task>>
    /\ UNCHANGED <<ddVars, scVars, faVars>>

\* The second call's asyncio.sleep(1) is over: back to its while
SecondBackoffDone ==
    /\ second.pc = "backoff"
    /\ la_pc # "attempt"
    /\ second' = [second EXCEPT !.pc = "attempt"]
    /\ UNCHANGED <<config, os_type, processes, next_pid, launch_history, running_processes,
                   la_pc, app_info, elevated, retry_count, last_error, proc, status,
                   recorded, la_calls, la_matching, la_outcomes, history_view, monitor_task>>
    /\ UNCHANGED <<ddVars, scVars, faVars>>

\* One pass of _monitor_processes, the body of the task's while True
MonitorProcesses ==
    /\ monitor_task
    /\ running_processes' =
           {r \in running_processes : \E p \in processes : p.pid = r.pid}
    /\ UNCHANGED <<config, os_type, processes, next_pid, launch_history, la_pc, app_info,
                   elevated, retry_count, last_error, proc, status, recorded,
                   la_calls, la_matching, la_outcomes, history_view, monitor_task, second>>
    /\ UNCHANGED <<ddVars, scVars, faVars>>

\* A process is started outside the launcher
ProcessStarts(p) ==
    /\ p \notin processes
    /\ processes' = processes \cup {p}
    /\ UNCHANGED <<config, os_type, next_pid, launch_history, running_processes, la_pc,
                   app_info, elevated, retry_count, last_error, proc, status,
                   recorded, la_calls, la_matching, la_outcomes, history_view, monitor_task, second>>
    /\ UNCHANGED <<ddVars, scVars, faVars>>

\* A process exits
ProcessExits(p) ==
    /\ p \in processes
    /\ processes' = processes \ {p}
    /\ UNCHANGED <<config, os_type, next_pid, launch_history, running_processes, la_pc,
                   app_info, elevated, retry_count, last_error, proc, status,
                   recorded, la_calls, la_matching, la_outcomes, history_view, monitor_task, second>>
    /\ UNCHANGED <<ddVars, scVars, faVars>>

\* EnhancedAppLauncher.__init__ with the keys of config left at their defaults
DefaultConfig ==
    [max_retries |-> MaxRetries, check_already_running |-> TRUE,
     monitor_processes |-> TRUE, log_launch_details |-> TRUE,
     validate_executable |-> TRUE, wait_for_startup |-> TRUE]

LaStart ==
    /\ processes = {}
    /\ next_pid = FirstSpawnedPid
    /\ launch_history = <<>>
    /\ running_processes = {}
    /\ la_pc = "idle"
    /\ app_info = NoneApp
    /\ elevated = FALSE
    /\ retry_count = 0
    /\ last_error = NoError
    /\ proc = 0
    /\ status = NoStatus
    /\ recorded = 0
    /\ la_calls = 0
    /\ la_matching = {}
    /\ la_outcomes = <<>>
    /\ history_view = [called |-> FALSE, limit |-> 0, entries |-> <<>>]

\* The scanner once its first scan of the catalog is complete
ScScanned ==
    /\ now = StartTime
    /\ cache_enabled = TRUE
    /\ scan_completed = TRUE
    /\ last_scan_time = StartTime
    /\ scan_lock = [locked |-> FALSE, waiters |-> <<>>]
    /\ apps_cache = ProcessAndDeduplicate(LaCatalog, MaxAppsDefault)
    /\ app_name_map = BuildNameMap(apps_cache, Len(apps_cache))
    /\ cache_file = JsonDump(0, apps_cache, 0)
    /\ pc = [c \in Callers |-> "idle"]
    /\ op = [c \in Callers |-> "ensure"]
    /\ force_refresh = [c \in Callers |-> FALSE]
    /\ current_time = [c \in Callers |-> 0]
    /\ last_done = StartTime
    /\ joined = [c \in Callers |-> FALSE]
    /\ overlapped = [c \in Callers |-> FALSE]
    /\ loaded = "none"
    /\ error_count = 0
    /\ gathered = <<>>
    /\ scan_raised = FALSE
    /\ measured = [c \in Callers |-> FALSE]
    /\ ttl_stale_skipped = FALSE

(***************************************************************************)
(* RobustAppLauncherAgent: handle_handoff                                  *)
(*                                                                         *)
(* One request at a time.  The agent hands its config dict to the launcher *)
(* and, through the launcher, to the scanner.  tool_name is written with a *)
(* tag: "launch", "list", "terminate", "running", "refresh", "history" and *)
(* "stats" are the seven operations of _process_request, "unknown" is any  *)
(* other string, "<absent>", "<empty>" and "<number>" are a missing, an    *)
(* empty and a non-string tool_name.                                       *)
(***************************************************************************)
MaxRequests == 2

\* The keys _load_config always provides
AgentDefaultKeys ==
    {"debug_mode", "cache_enabled", "cache_ttl", "max_apps", "launch_timeout",
     "wait_for_startup", "check_already_running", "monitor_processes",
     "max_retries", "log_level"}

\* The keys only EnhancedAppScanner._load_default_config provides
ScannerOnlyKeys ==
    {"scan_app_paths", "scan_uninstall", "scan_user_uninstall", "scan_shortcuts",
     "scan_start_menu", "scan_desktop", "enable_incremental", "verify_executables"}

\* The keys only EnhancedAppLauncher._load_default_config provides
LauncherOnlyKeys ==
    {"startup_wait_time", "elevate_if_needed", "log_launch_details",
     "validate_executable", "use_shell_execute", "working_directory"}

Notepad == <<"n", "o", "t", "e", "p", "a", "d">>
NotepadExe == <<"d", "/">> \o Notepad \o ExeSuffix

\* What the source scanners return to a scan started through the agent
FaScanInputs ==
    { <<AppInfo(Notepad, NotepadExe, "registry_app_paths", <<>>)>> }

Operations ==
    {"launch", "list", "terminate", "running", "refresh", "history", "stats"}

DictPayload(tool_name, request_id, app, elev) ==
    [kind |-> "dict", tool_name |-> tool_name, request_id |-> request_id,
     app |-> app, elevated |-> elev]

NoPayload == DictPayload("<absent>", "", <<>>, FALSE)

\* The payloads handle_handoff is called with; request_id "" and app <<>> are
\* absent keys; the kinds "list" and "null" are payloads that are no object
FaPayloads ==
    {[kind |-> k, tool_name |-> "<absent>", request_id |-> "", app |-> <<>>,
      elevated |-> FALSE] : k \in {"list", "null"}}
    \cup {DictPayload(t, r, <<>>, FALSE) :
              t \in {"<absent>", "<empty>", "<number>", "unknown", "launch", "list",
                     "terminate", "running", "refresh", "history", "stats"},
              r \in {"", "r1"}}
    \cup {DictPayload("launch", "", a, e) : a \in {Notepad, <<"x">>}, e \in BOOLEAN}
    \cup {DictPayload("terminate", "", Notepad, FALSE)}

\* request_id = data.get("request_id", f"req_{total}")
RequestId(data, total) ==
    IF data.request_id # "" THEN [given |-> TRUE, text |-> data.request_id, n |-> 0]
    ELSE [given |-> FALSE, text |-> "req_", n |-> total]

NoRequestId == [given |-> FALSE, text |-> "", n |-> 0]

\* _validate_request on a dict
ValidateRequest(data) ==
    IF data.tool_name \in {"<absent>", "<empty>"} THEN FALSE
    ELSE IF data.tool_name = "<number>" THEN FALSE
    ELSE TRUE

\* The dict a handler returns; json_ok tells whether json.dumps accepts it;
\* process_id 0 and error_details "" are an absent key or None
Result(success, st, json_ok, total_count, apps, process_id) ==
    [success |-> success, status |-> st, json_ok |-> json_ok,
     total_count |-> total_count, apps |-> apps, process_id |-> process_id,
     error_details |-> "", has_more |-> FALSE]

ErrorResult == Result(FALSE, "error", TRUE, 0, <<>>, 0)

\* The envelope that reaches the caller
Envelope(result, request_id, error_code) ==
    [success |-> result.success, status |-> result.status, message |-> "text",
     request_id |-> request_id, error_code |-> error_code,
     total_count |-> result.total_count, apps |-> result.apps,
     process_id |-> result.process_id, error_details |-> result.error_details,
     has_more |-> result.has_more]

NoResponse == Envelope(Result(FALSE, "none", TRUE, 0, <<>>, 0), NoRequestId, "")

\* _create_error_response
CreateErrorResponse(request_id, error_code) ==
    Envelope(ErrorResult, request_id, error_code)

\* handle_handoff once _process_request returned result: the counters; an
\* exception of json.dumps reaches the except clause after the first count
StatsAfterResult(st, result) ==
    LET counted == IF result.success
                   THEN [st EXCEPT !.successful_requests = @ + 1]
                   ELSE [st EXCEPT !.failed_requests = @ + 1]
    IN IF result.json_ok THEN counted
       ELSE [counted EXCEPT !.failed_requests = @ + 1]

\* ... and what it returns
ResponseAfterResult(result, request_id) ==
    IF result.json_ok THEN Envelope(result, request_id, "")
    ELSE CreateErrorResponse(request_id, "INTERNAL_ERROR")

\* The end of handle_handoff for a handler that returned result
FaFinish(result) ==
    /\ stats' = StatsAfterResult(stats, result)
    /\ fa_response' = ResponseAfterResult(result, fa_request_id)
    /\ fa_pc' = "returned"
    /\ UNCHANGED <<config_keys, debug_mode, initialized, fa_data, fa_request_id, fa_calls>>

\* handle_handoff up to _process_request: the count, request_id, initialize,
\* _validate_request
FaReceive(data) ==
    /\ fa_pc = "idle"
    /\ la_pc = "idle"
    /\ fa_calls < MaxRequests
    /\ fa_calls' = fa_calls + 1
    /\ fa_data' = data
    /\ LET counted == [stats EXCEPT !.total_requests = @ + 1]
           started == IF initialized THEN counted
                      ELSE [counted EXCEPT !.startup_time = now]
       IN IF data.kind # "dict"
          THEN /\ stats' = counted
               /\ fa_pc' = "raised"
               /\ UNCHANGED <<initialized, warmup, fa_request_id, fa_response>>
          ELSE /\ fa_request_id' = RequestId(data, counted.total_requests)
               /\ initialized' = TRUE
               /\ warmup' = IF initialized THEN warmup ELSE "pending"
               /\ IF ValidateRequest(data)
                  THEN /\ stats' = started
                       /\ fa_pc' = "received"
                       /\ UNCHANGED fa_response
                  ELSE /\ stats' = [started EXCEPT !.failed_requests = @ + 1]
                       /\ fa_pc' = "returned"
                       /\ fa_response' =
                              CreateErrorResponse(fa_request_id', "INVALID_REQUEST")
    /\ UNCHANGED <<config_keys, debug_mode>>
    /\ UNCHANGED <<ddVars, scVars, laVars>>

\* The caller has the response (or the exception)
FaReturn ==
    /\ fa_pc \in {"returned", "raised"}
    /\ fa_pc' = "idle"
    /\ fa_data' = NoPayload
    /\ fa_request_id' = NoRequestId
    /\ fa_response' = NoResponse
    /\ UNCHANGED <<config_keys, debug_mode, initialized, warmup, stats, fa_calls>>
    /\ UNCHANGED <<ddVars, scVars, laVars>>

\* The scanner's fields as one record
ScannerFields ==
    [raised |-> FALSE, scan_completed |-> scan_completed,
     last_scan_time |-> last_scan_time, apps_cache |-> apps_cache,
     app_name_map |-> app_name_map, cache_file |-> cache_file,
     last_done |-> last_done]

\* The scanner's fields after _scan_all_sources got results; it raises
\* KeyError at its first config["scan_app_paths"] when the key is missing
AfterScanAllSources(results) ==
    IF "scan_app_paths" \notin config_keys
    THEN [ScannerFields EXCEPT !.raised = TRUE]
    ELSE LET apps == ProcessAndDeduplicate(results, MaxAppsDefault)
         IN [ScannerFields EXCEPT
                !.apps_cache = apps,
                !.app_name_map = BuildNameMap(apps, Len(apps)),
                !.cache_file = IF cache_enabled THEN SaveCache(apps) ELSE @,
                !.last_done = now]

\* ensure_scan_completed() called while no other coroutine uses the scanner
EnsureOutcome(results) ==
    IF ~NeedScan(FALSE, now) THEN ScannerFields
    ELSE LET scanned == AfterScanAllSources(results)
         IN IF scanned.raised THEN scanned
            ELSE [scanned EXCEPT !.scan_completed = TRUE, !.last_scan_time = now]

\* refresh_apps() called while no other coroutine uses the scanner
RefreshOutcome(results) ==
    LET scanned == AfterScanAllSources(results)
    IN IF scanned.raised THEN [scanned EXCEPT !.scan_completed = FALSE]
       ELSE [scanned EXCEPT !.scan_completed = TRUE]

SetScanner(sc) ==
    /\ scan_completed' = sc.scan_completed
    /\ last_scan_time' = sc.last_scan_time
    /\ apps_cache' = sc.apps_cache
    /\ app_name_map' = sc.app_name_map
    /\ cache_file' = sc.cache_file
    /\ last_done' = sc.last_done
    /\ UNCHANGED <<now, cache_enabled, scan_lock, pc, op, force_refresh,
                   current_time, joined, overlapped, loaded, error_count, gathered, scan_raised, measured, ttl_stale_skipped>>

LlmLimit == 100

\* s[:n]
Prefix(s, n) == SubSeq(s, 1, IF Len(s) < n THEN Len(s) ELSE n)

\* get_app_info_for_llm once the scan is ensured
AppInfoForLlm(apps) ==
    LET app_names == [i \in DOMAIN apps |-> apps[i].display_name]
    IN [total_count |-> Len(app_names), apps |-> Prefix(app_names, LlmLimit),
        has_more |-> Len(app_names) > LlmLimit]

\* The task initialize created runs: scanner.ensure_scan_completed(), whose
\* exception nobody sees
FaWarmUp(results) ==
    /\ warmup = "pending"
    /\ fa_pc # "received"
    /\ warmup' = "done"
    /\ SetScanner(EnsureOutcome(results))
    /\ UNCHANGED <<config_keys, debug_mode, initialized, stats, fa_pc, fa_data, fa_request_id,
                   fa_response, fa_calls>>
    /\ UNCHANGED <<ddVars, laVars>>

\* _handle_get_apps
FaGetApps(results) ==
    /\ fa_pc = "received"
    /\ fa_data.tool_name = "list"
    /\ LET sc == EnsureOutcome(results)
           info == AppInfoForLlm(sc.apps_cache)
       IN /\ SetScanner(sc)
          /\ FaFinish(IF sc.raised THEN ErrorResult
                      ELSE Result(TRUE, "apps_list", TRUE, info.total_count,
                                  Prefix(info.apps, LlmLimit), 0))
    /\ UNCHANGED warmup
    /\ UNCHANGED <<ddVars, laVars>>

\* limit = data.get("limit", 100)
DefaultLimit == 100

\* The data of the response _handle_get_apps builds from app_info
GetAppsData(info, limit) ==
    [Result(TRUE, "apps_list", TRUE, info.total_count, Prefix(info.apps, limit), 0)
         EXCEPT !.has_more = Len(info.apps) > limit]

\* _handle_get_apps for a request that carries limit, the cache being READY:
\* get_app_info_for_llm starts no scan
FaGetAppsLimit(limit) ==
    /\ fa_pc = "received"
    /\ fa_data.tool_name = "list"
    /\ ~NeedScan(FALSE, now)
    /\ FaFinish(GetAppsData(AppInfoForLlm(apps_cache), limit))
    /\ UNCHANGED warmup
    /\ UNCHANGED <<ddVars, scVars, laVars>>

\* _handle_refresh_apps
FaRefreshApps(results) ==
    /\ fa_pc = "received"
    /\ fa_data.tool_name = "refresh"
    /\ LET sc == RefreshOutcome(results)
       IN /\ SetScanner(sc)
          /\ FaFinish(IF sc.raised THEN ErrorResult
                      ELSE Result(TRUE, "refreshed", TRUE, 0, <<>>, 0))
    /\ UNCHANGED warmup
    /\ UNCHANGED <<ddVars, laVars>>

\* _handle_get_running_apps
FaGetRunningApps ==
    /\ fa_pc = "received"
    /\ fa_data.tool_name = "running"
    /\ LET running_apps ==
               {r \in running_processes : \E p \in processes : p.pid = r.pid}
       IN FaFinish(Result(TRUE, "running_apps", TRUE, Cardinality(running_apps),
                          <<>>, 0))
    /\ UNCHANGED warmup
    /\ UNCHANGED <<ddVars, scVars, laVars>>

\* _handle_get_launch_history
FaGetLaunchHistory ==
    /\ fa_pc = "received"
    /\ fa_data.tool_name = "history"
    /\ FaFinish(Result(TRUE, "launch_history", TRUE, Len(launch_history), <<>>, 0))
    /\ UNCHANGED warmup
    /\ UNCHANGED <<ddVars, scVars, laVars>>

\* _handle_get_stats: the dict holds self.stats, whose startup_time is a
\* datetime once initialize ran, and json.dumps rejects a datetime
FaGetStats ==
    /\ fa_pc = "received"
    /\ fa_data.tool_name = "stats"
    /\ FaFinish(Result(TRUE, "stats", stats.startup_time = 0, 0, <<>>, 0))
    /\ UNCHANGED warmup
    /\ UNCHANGED <<ddVars, scVars, laVars>>

\* An else branch that answers with success
FaUnknown_AsSuccess ==
    /\ fa_pc = "received"
    /\ fa_data.tool_name = "unknown"
    /\ FaFinish(Result(TRUE, "error", TRUE, 0, <<>>, 0))
    /\ UNCHANGED warmup
    /\ UNCHANGED <<ddVars, scVars, laVars>>

\* _process_request's else branch
FaUnknown ==
    /\ fa_pc = "received"
    /\ fa_data.tool_name = "unknown"
    /\ FaFinish(ErrorResult)
    /\ UNCHANGED warmup
    /\ UNCHANGED <<ddVars, scVars, laVars>>

\* terminate_app once the application is looked up: killed are the matching
\* processes whose terminate() went through
TerminateStatus(found, killed) ==
    IF found = NoneApp THEN LaunchStatus("not_found", <<>>, 0, "", "")
    ELSE IF killed # {}
         THEN LaunchStatus("success", found.display_name, 0, "", "")
         ELSE LaunchStatus("failed", found.display_name, 0, "", "")

\* The subsets of the matching processes terminate() can go through for
Killable(found) ==
    IF found = NoneApp THEN {{}}
    ELSE SUBSET {p \in processes : ProcMatches(p, found)}

\* _handle_terminate_app with launcher.terminate_app
FaTerminateApp(results) ==
    /\ fa_pc = "received"
    /\ fa_data.tool_name = "terminate"
    /\ IF fa_data.app = <<>>
       THEN /\ FaFinish(ErrorResult)
            /\ UNCHANGED <<scVars, processes>>
       ELSE LET sc == EnsureOutcome(results)
            IN /\ SetScanner(sc)
               /\ IF sc.raised
                  THEN /\ FaFinish(ErrorResult)
                       /\ UNCHANGED processes
                  ELSE \E killed \in
                              Killable(FindAppInfoIn(sc.app_name_map, fa_data.app)) :
                          LET st == TerminateStatus(
                                  FindAppInfoIn(sc.app_name_map, fa_data.app), killed)
                          IN /\ processes' = processes \ killed
                             /\ FaFinish(Result(st.result = "success", st.result,
                                                TRUE, 0, <<>>, 0))
    /\ UNCHANGED warmup
    /\ UNCHANGED <<config, os_type, next_pid, launch_history, running_processes, la_pc,
                   app_info, elevated, retry_count, last_error, proc, status,
                   recorded, la_calls, la_matching, la_outcomes, history_view, monitor_task, second>>
    /\ UNCHANGED ddVars

\* _handle_launch_app up to the lookup inside launcher.launch_app; without
\* an app it is _get_app_list_for_selection, whose dict names the undefined
\* name false and so always ends in its except clause
FaLaunchBegin(results) ==
    /\ fa_pc = "received"
    /\ fa_data.tool_name = "launch"
    /\ fa_data.app # <<>> => la_calls < MaxLaunchCalls
    /\ LET sc == EnsureOutcome(results)
       IN /\ SetScanner(sc)
          /\ IF fa_data.app = <<>> \/ sc.raised
             THEN FaFinish(ErrorResult)
             ELSE /\ fa_pc' = "launching"
                  /\ UNCHANGED <<config_keys, debug_mode, initialized, stats, fa_data,
                                 fa_request_id, fa_response, fa_calls>>
    /\ UNCHANGED warmup
    /\ UNCHANGED <<ddVars, laVars>>

\* launcher.launch_app is called
FaLaunchCall ==
    /\ fa_pc = "launching"
    /\ LaunchApp(fa_data.app, fa_data.elevated)

\* _handle_launch_app once launcher.launch_app returned or raised
FaLaunchEnd ==
    /\ fa_pc = "launching"
    /\ la_pc \in {"done", "raised"}
    /\ FaFinish(IF la_pc = "raised"
                THEN [ErrorResult EXCEPT
                         !.error_details = IF debug_mode THEN "traceback" ELSE ""]
                ELSE IF status.result = "success"
                THEN Result(TRUE, "app_started", TRUE, 0, <<>>, status.process_id)
                ELSE [Result(FALSE, status.result, TRUE, 0, <<>>, 0) EXCEPT
                         !.error_details = status.error_details])
    /\ UNCHANGED warmup
    /\ UNCHANGED <<ddVars, scVars, laVars>>

\* RobustAppLauncherAgent.__init__
FaStart ==
    /\ initialized = FALSE
    /\ warmup = "none"
    /\ stats = [total_requests |-> 0, successful_requests |-> 0,
                failed_requests |-> 0, startup_time |-> 0]
    /\ fa_pc = "idle"
    /\ fa_data = NoPayload
    /\ fa_request_id = NoRequestId
    /\ fa_response = NoResponse
    /\ fa_calls = 0

(***************************************************************************)
(* Specifications                                                          *)
(***************************************************************************)
DdInit ==
    /\ DdStart
    /\ dd_max_apps \in {MaxAppsSmall, MaxAppsDefault}
    /\ ScStart
    /\ cache_enabled = TRUE
    /\ LaStart
    /\ os_type = "windows"
    /\ config = DefaultConfig
    /\ monitor_task = config.monitor_processes
    /\ second = NoSecond
    /\ FaStart
    /\ config_keys = AgentDefaultKeys \cup ScannerOnlyKeys \cup LauncherOnlyKeys
    /\ debug_mode = FALSE

SpecDedup == DdInit /\ [][DdNext]_vars

CrossDdInit ==
    /\ DdStart
    /\ dd_max_apps = MaxAppsDefault
    /\ ScStart
    /\ cache_enabled = TRUE
    /\ LaStart
    /\ os_type \in {"linux", "macos", "windows"}
    /\ config = DefaultConfig
    /\ monitor_task = config.monitor_processes
    /\ second = NoSecond
    /\ FaStart
    /\ config_keys = AgentDefaultKeys \cup ScannerOnlyKeys \cup LauncherOnlyKeys
    /\ debug_mode = FALSE

SpecPriority == CrossDdInit /\ [][CrossDdNext]_vars

\* find_app on the name index of a scan's result: the cache is ready, so
\* its ensure_scan_completed returns at once.  found is <<>> for None.
FiRecords ==
    { AppInfo(<<"a", "b">>, <<"p">>, "registry_app_paths", <<>>),
      AppInfo(<<"c">>, <<"q">>, "shortcut_desktop", <<"D", "C">>),
      AppInfo(<<"B", ".", "E", "X", "E">>, <<"g">>, "registry_uninstall", <<>>) }

FiNames == {<<"b">>, <<"A", "B">>, <<"d", "c", "e">>, <<"d">>, <<"x">>, <<>>}

MaxFiLen == 2

FiLists == UNION {[1..n -> FiRecords] : n \in 0..MaxFiLen}

DdFindApp(name, fuzzy) ==
    /\ dd_pc = "done"
    /\ LET app == FindAppIn(BuildNameMap(dd_result, Len(dd_result)), name, fuzzy)
       IN dd_find' = [name |-> name, fuzzy |-> fuzzy,
                      found |-> IF app = NoneApp THEN <<>> ELSE <<app>>]
    /\ dd_pc' = "found"
    /\ UNCHANGED <<dd_apps, dd_max_apps, dd_result>>
    /\ UNCHANGED <<scVars, laVars, faVars>>

FiInit ==
    /\ dd_apps \in FiLists
    /\ dd_result = <<>>
    /\ dd_pc = "build"
    /\ dd_find = [name |-> <<>>, fuzzy |-> FALSE, found |-> <<>>]
    /\ dd_max_apps = MaxAppsDefault
    /\ ScStart
    /\ cache_enabled = TRUE
    /\ LaStart
    /\ os_type = "windows"
    /\ config = DefaultConfig
    /\ monitor_task = config.monitor_processes
    /\ second = NoSecond
    /\ FaStart
    /\ config_keys = AgentDefaultKeys \cup ScannerOnlyKeys \cup LauncherOnlyKeys
    /\ debug_mode = FALSE

FiNext ==
    \/ DdRun
    \/ \E name \in FiNames, fuzzy \in BOOLEAN : DdFindApp(name, fuzzy)

SpecFind == FiInit /\ [][FiNext]_vars

Init ==
    /\ ScStart
    /\ cache_enabled \in BOOLEAN
    /\ DdStart
    /\ dd_max_apps = MaxAppsDefault
    /\ LaStart
    /\ os_type = "windows"
    /\ config = DefaultConfig
    /\ monitor_task = config.monitor_processes
    /\ second = NoSecond
    /\ FaStart
    /\ config_keys = AgentDefaultKeys \cup ScannerOnlyKeys \cup LauncherOnlyKeys
    /\ debug_mode = FALSE

Next ==
    \/ \E c \in Callers, force \in BOOLEAN : EnsureScanCompleted(c, force)
    \/ \E c \in Callers, force \in BOOLEAN : GetApps(c, force)
    \/ \E c \in Callers : FindAppCall(c)
    \/ \E c \in Callers : GetAppInfoForLlm(c)
    \/ \E c \in Callers : RefreshApps(c)
    \/ \E c \in Callers : LockGranted(c)
    \/ \E c \in Callers, results \in ScanInputs : ScanAllSourcesDone(c, results)
    \/ Tick

Spec == Init /\ [][Next]_vars

\* One caller's scans with source scanners that can raise
MaxTasks == 2
MaxErrors == 2

TaskOutcomes ==
    {TaskFailed} \cup {[failed |-> FALSE, apps |-> l] : l \in CacheScanInputs}

TaskResults == UNION {[1..n -> TaskOutcomes] : n \in 1..MaxTasks}

ScanNext ==
    \/ \E force \in BOOLEAN : EnsureScanCompleted(1, force)
    \/ RefreshApps(1)
    \/ \E task_results \in TaskResults :
          /\ error_count + FailedCount(task_results) <= MaxErrors
          /\ ScanGathered(1, task_results)

SpecScan == Init /\ [][ScanNext]_vars

\* The program is started again while no call is in progress: __init__
\* builds a new scanner, and the cache file is the one the last run left
Restart ==
    /\ \A c \in Callers : pc[c] = "idle"
    /\ scan_completed' = FALSE
    /\ last_scan_time' = 0
    /\ apps_cache' = <<>>
    /\ app_name_map' = <<>>
    /\ last_done' = 0
    /\ loaded' = "none"
    /\ error_count' = 0
    /\ gathered' = <<>>
    /\ scan_raised' = FALSE
    /\ UNCHANGED <<now, cache_enabled, scan_lock, cache_file, pc, op, force_refresh,
                   current_time, joined, overlapped, measured, ttl_stale_skipped>>
    /\ UNCHANGED <<ddVars, laVars, faVars>>

\* The scanner with its cache file read back by _load_cache
CacheNext ==
    \/ \E c \in Callers, force \in BOOLEAN : EnsureScanCompleted(c, force)
    \/ \E c \in Callers : RefreshApps(c)
    \/ \E c \in Callers : LockGranted(c)
    \/ \E c \in Callers, results \in CacheScanInputs : ScanAllSourcesDone(c, results)
    \/ LoadCache
    \/ Restart
    \/ Tick

SpecCache == Init /\ [][CacheNext]_vars

\* The event loop resumes the head waiter of a released asyncio.Lock, and
\* every scan terminates
\* The calls of the scanner while the clock stands at StartTime
LiveScanInput == <<AppInfo(<<"b">>, <<"q">>, "registry_app_paths", <<>>)>>

LiveNext ==
    \/ \E c \in Callers, force \in BOOLEAN : EnsureScanCompleted(c, force)
    \/ \E c \in Callers : RefreshApps(c)
    \/ \E c \in Callers : LockGranted(c)
    \/ \E c \in Callers : ScanAllSourcesDone(c, LiveScanInput)

\* The step by which the scan of caller c ends, as pc shows it
ScanEnds(c) == pc[c] = "scanning" /\ pc' = [pc EXCEPT ![c] = "idle"]

SpecLive ==
    /\ Init /\ [][LiveNext]_vars
    /\ \A c \in Callers :
           /\ WF_vars(LockGranted(c))
           /\ WF_pc(ScanEnds(c))

(***************************************************************************)
(* CrossPlatformAppLauncher.launch_app                                     *)
(*                                                                         *)
(* The same fields as EnhancedAppLauncher.  launch_app calls the strategy  *)
(* of the platform once, inside one try statement.                         *)
(***************************************************************************)
OperatingSystems == {"windows", "linux", "macos", "unknown"}

CrossExceptions ==
    Exceptions \cup {[type |-> "FileNotFoundError", text |-> "e3"]}

CrossSpawnOutcomes == {[kind |-> "ok", error |-> NoError]}
                      \cup {[kind |-> "raise", error |-> e] : e \in CrossExceptions}

WindowsSuffixes ==
    {ExeSuffix, <<".", "b", "a", "t">>, <<".", "c", "m", "d">>, <<".", "p", "s", "1">>}

DotApp == <<".", "a", "p", "p">>

\* _validate_executable: the extension on Windows, the execute permission
\* elsewhere
CrossValidateExecutable(exe_path) ==
    LET known == {f \in FileTable : f.path = exe_path}
        f == CHOOSE g \in known : TRUE
    IN IF known = {} THEN [valid |-> FALSE, details |-> "path"]
       ELSE IF ~f.is_file THEN [valid |-> FALSE, details |-> "path"]
       ELSE IF /\ os_type = "windows"
               /\ \A suffix \in WindowsSuffixes : ~EndsWith(Lower(exe_path), suffix)
            THEN [valid |-> FALSE, details |-> "extension"]
       ELSE IF os_type # "windows" /\ ~f.x_ok
            THEN [valid |-> FALSE, details |-> "file"]
       ELSE IF f.size = 0 THEN [valid |-> FALSE, details |-> "size"]
       ELSE [valid |-> TRUE, details |-> "size"]

\* The LaunchStatus a platform strategy builds once its process is started
CrossSuccessStatus(app, pid) ==
    LaunchStatus("success", app.display_name, pid, "",
                 IF os_type = "windows" THEN "windows_direct"
                 ELSE IF os_type = "linux" THEN "linux_direct" ELSE "macos_direct")

\* launch_app up to the try statement
CrossLaunchApp(app_name, elev) ==
    /\ la_pc = "idle"
    /\ la_calls < MaxLaunchCalls
    /\ ~NeedScan(FALSE, now)
    /\ la_calls' = la_calls + 1
    /\ LET found == FindAppInfo(app_name)
           validation == CrossValidateExecutable(found.path)
           running == CheckIfRunning(found)
       IN /\ la_matching' = IF found = NoneApp THEN {}
                            ELSE {p \in processes : ProcMatches(p, found)}
          /\ IF found = NoneApp
             THEN /\ status' = LaunchStatus("not_found", app_name, 0, "", "")
                  /\ la_pc' = "done"
                  /\ UNCHANGED <<app_info, elevated>>
             ELSE IF config.validate_executable /\ ~validation.valid
             THEN /\ status' = LaunchStatus("invalid_path", app_name, 0,
                                            validation.details, "")
                  /\ la_pc' = "done"
                  /\ UNCHANGED <<app_info, elevated>>
             ELSE IF config.check_already_running /\ running # 0
             THEN /\ status' = LaunchStatus("already_running", found.display_name,
                                            running, "", "")
                  /\ la_pc' = "done"
                  /\ UNCHANGED <<app_info, elevated>>
             ELSE /\ app_info' = found
                  /\ elevated' = elev
                  /\ la_pc' = "attempt"
                  /\ UNCHANGED status
    /\ UNCHANGED <<config, os_type, processes, next_pid, launch_history,
                   running_processes, retry_count, last_error, proc, recorded,
                   la_outcomes, history_view, monitor_task, second>>
    /\ UNCHANGED <<ddVars, scVars, faVars>>

\* The status the platform strategy returns for an exception of Popen;
\* "none" where the strategy raises it again
CrossHandled(e) ==
    IF e.type = "PermissionError" THEN "access_denied"
    ELSE IF e.type = "FileNotFoundError" /\ os_type = "linux" THEN "not_found"
    ELSE "none"

\* The try statement of launch_app up to the strategy's first suspension:
\* _launch_windows_app, _launch_linux_app or _launch_macos_app; no strategy
\* on an unknown platform.  An
\* exception the strategy raises ends launch_app with FAILED at once.
CrossAttempt(outcome) ==
    /\ la_pc = "attempt"
    /\ LET raised == outcome.kind = "raise"
           handled == IF raised THEN CrossHandled(outcome.error) ELSE "none"
           foreign == os_type = "windows" /\ EndsWith(app_info.path, DotApp)
       IN IF os_type = "unknown"
          THEN /\ history_view' = history_view /\ monitor_task' = monitor_task /\ second' = second /\ la_outcomes' = Append(la_outcomes,
                     [kind |-> "return", result |-> "unsupported_platform",
                      text |-> "None"])
               /\ StrategyReturned(
                      LaunchStatus("unsupported_platform", app_info.display_name,
                                   0, "", ""))
               /\ UNCHANGED <<processes, next_pid, proc>>
          ELSE IF foreign
          THEN /\ history_view' = history_view /\ monitor_task' = monitor_task /\ second' = second /\ la_outcomes' = Append(la_outcomes,
                     [kind |-> "return", result |-> "failed", text |-> "None"])
               /\ StrategyReturned(
                      LaunchStatus("failed", app_info.display_name, 0, "", ""))
               /\ UNCHANGED <<processes, next_pid, proc>>
          ELSE
          /\ history_view' = history_view /\ monitor_task' = monitor_task /\ second' = second /\ la_outcomes' = Append(la_outcomes,
                [kind |-> IF raised /\ handled = "none" THEN "raise" ELSE "return",
                 result |-> IF ~raised THEN "success" ELSE handled,
                 text |-> Str(outcome.error)])
          /\ IF ~raised
             THEN /\ processes' = processes \cup
                        {[pid |-> next_pid, exe |-> app_info.path,
                          name |-> Basename(app_info.path)]}
                  /\ next_pid' = next_pid + 1
                  /\ proc' = next_pid
                  /\ IF config.wait_for_startup
                     THEN /\ la_pc' = "startup_wait"
                          /\ UNCHANGED <<launch_history, recorded, running_processes,
                                         status, retry_count, last_error>>
                     ELSE StrategyReturned(CrossSuccessStatus(app_info, next_pid))
             ELSE /\ UNCHANGED <<processes, next_pid, proc>>
                  /\ IF handled # "none"
                     THEN StrategyReturned(
                              LaunchStatus(handled, app_info.display_name, 0,
                                           Str(outcome.error), ""))
                     ELSE /\ status' = FailedStatus(app_info, outcome.error)
                          /\ la_pc' = "done"
                          /\ UNCHANGED <<launch_history, recorded, running_processes,
                                         retry_count, last_error>>
    /\ UNCHANGED <<config, os_type, app_info, elevated, la_calls, la_matching>>
    /\ UNCHANGED <<ddVars, scVars, faVars>>

\* _wait_for_process_startup's sleep is over: the strategy returns SUCCESS
CrossStartupWaited ==
    /\ la_pc = "startup_wait"
    /\ StrategyReturned(CrossSuccessStatus(app_info, proc))
    /\ UNCHANGED <<config, os_type, processes, next_pid, app_info, elevated, proc,
                   la_calls, la_matching, la_outcomes, history_view, monitor_task, second>>
    /\ UNCHANGED <<ddVars, scVars, faVars>>

LaInit ==
    /\ LaStart
    /\ os_type = "windows"
    /\ config \in [max_retries : 0..MaxRetries, check_already_running : BOOLEAN,
                   monitor_processes : BOOLEAN, log_launch_details : BOOLEAN,
                   validate_executable : BOOLEAN, wait_for_startup : BOOLEAN]
    /\ monitor_task = config.monitor_processes
    /\ second = NoSecond
    /\ ScScanned
    /\ DdStart
    /\ dd_max_apps = MaxAppsDefault
    /\ FaStart
    /\ config_keys = AgentDefaultKeys \cup ScannerOnlyKeys \cup LauncherOnlyKeys
    /\ debug_mode = FALSE

LaNext ==
    \/ \E app_name \in LaNames, elev \in BOOLEAN : LaunchApp(app_name, elev)
    \/ \E outcome \in SpawnOutcomes : Attempt(outcome)
    \/ StartupWaited
    \/ BackoffDone
    \/ LaunchReturn
    \/ MonitorProcesses
    \/ \E p \in ExternalProcesses : ProcessStarts(p)
    \/ \E p \in processes : ProcessExits(p)

SpecLaunch == LaInit /\ [][LaNext]_vars

\* CrossPlatformAppLauncher on one of its platforms, the scanner's first
\* scan complete
CrossInit ==
    /\ LaStart
    /\ os_type \in OperatingSystems
    /\ config \in [max_retries : {MaxRetries}, check_already_running : BOOLEAN,
                   monitor_processes : BOOLEAN, log_launch_details : BOOLEAN,
                   validate_executable : BOOLEAN, wait_for_startup : BOOLEAN]
    /\ monitor_task = config.monitor_processes
    /\ second = NoSecond
    /\ ScScanned
    /\ DdStart
    /\ dd_max_apps = MaxAppsDefault
    /\ FaStart
    /\ config_keys = AgentDefaultKeys \cup ScannerOnlyKeys \cup LauncherOnlyKeys
    /\ debug_mode = FALSE

CrossNext ==
    \/ \E app_name \in LaNames, elev \in BOOLEAN : CrossLaunchApp(app_name, elev)
    \/ \E outcome \in CrossSpawnOutcomes : CrossAttempt(outcome)
    \/ CrossStartupWaited
    \/ LaunchReturn
    \/ MonitorProcesses
    \/ \E p \in ExternalProcesses : ProcessStarts(p)
    \/ \E p \in processes : ProcessExits(p)

SpecCross == CrossInit /\ [][CrossNext]_vars

\* CrossPlatformAppLauncher.__init__ with _start_process_monitor: the task
\* is created when an event loop runs; without one get_running_loop raises
\* RuntimeError, the task stays None and nothing starts it later
CrossMonitorInit ==
    /\ LaStart
    /\ os_type \in {"linux", "windows"}
    /\ config \in {[DefaultConfig EXCEPT !.monitor_processes = m,
                                          !.wait_for_startup = w] :
                       m, w \in BOOLEAN}
    /\ \E running_loop \in BOOLEAN :
           monitor_task = (config.monitor_processes /\ running_loop)
    /\ second = NoSecond
    /\ ScScanned
    /\ DdStart
    /\ dd_max_apps = MaxAppsDefault
    /\ FaStart
    /\ config_keys = AgentDefaultKeys \cup ScannerOnlyKeys \cup LauncherOnlyKeys
    /\ debug_mode = FALSE

\* The event loop runs the monitor task again and again (its sleeps end)
SpecCrossMonitor ==
    CrossMonitorInit /\ [][CrossNext]_vars /\ WF_vars(MonitorProcesses)

\* EnhancedAppLauncher.__init__: asyncio.create_task needs the running loop,
\* so a launcher that exists with monitor_processes on has its task
SpecMonitor == LaInit /\ [][LaNext]_vars /\ WF_vars(MonitorProcesses)

\* _record_launch called again and again with one LaunchStatus
MaxRecorded == 160

RecordLaunchCall ==
    /\ la_pc = "recording"
    /\ recorded < MaxRecorded
    /\ launch_history' = RecordLaunch(launch_history, config.log_launch_details,
                                      app_info, status, recorded + 1)
    /\ recorded' = IF config.log_launch_details THEN recorded + 1 ELSE recorded
    /\ UNCHANGED <<config, os_type, processes, next_pid, running_processes, la_pc, app_info,
                   elevated, retry_count, last_error, proc, status, la_calls,
                   la_matching, la_outcomes, history_view, monitor_task, second>>
    /\ UNCHANGED <<ddVars, scVars, faVars>>

HiInit ==
    /\ config \in {[DefaultConfig EXCEPT !.log_launch_details = b] : b \in BOOLEAN}
    /\ monitor_task = config.monitor_processes
    /\ second = NoSecond
    /\ os_type = "windows"
    /\ processes = {}
    /\ next_pid = FirstSpawnedPid
    /\ launch_history = <<>>
    /\ running_processes = {}
    /\ la_pc = "recording"
    /\ app_info \in {LaCatalog[i] : i \in DOMAIN LaCatalog}
    /\ elevated = FALSE
    /\ retry_count = 0
    /\ last_error = NoError
    /\ proc = 0
    /\ status \in {SuccessStatus(app_info, FirstSpawnedPid),
                   LaunchStatus("access_denied", app_info.display_name, 0, "e2", "")}
    /\ recorded = 0
    /\ la_calls = 0
    /\ la_matching = {}
    /\ la_outcomes = <<>>
    /\ history_view = [called |-> FALSE, limit |-> 0, entries |-> <<>>]
    /\ ScScanned
    /\ DdStart
    /\ dd_max_apps = MaxAppsDefault
    /\ FaStart
    /\ config_keys = AgentDefaultKeys \cup ScannerOnlyKeys \cup LauncherOnlyKeys
    /\ debug_mode = FALSE

HiNext == RecordLaunchCall

\* history[-limit:]
LastEntries(history, limit) ==
    LET n == Len(history)
        start == IF limit = 0 THEN 1
                 ELSE IF limit > 0 THEN (IF n - limit < 0 THEN 0 ELSE n - limit) + 1
                 ELSE (IF -limit > n THEN n ELSE -limit) + 1
    IN SubSeq(history, start, n)

MaxLimit == 3

\* get_launch_history(limit)
GetLaunchHistory(limit) ==
    /\ la_pc = "recording"
    /\ history_view' = [called |-> TRUE, limit |-> limit,
                        entries |-> LastEntries(launch_history, limit)]
    /\ la_pc' = "viewed"
    /\ UNCHANGED <<config, os_type, processes, next_pid, launch_history,
                   running_processes, app_info, elevated, retry_count, last_error,
                   proc, status, recorded, la_calls, la_matching, la_outcomes,
                   monitor_task, second>>
    /\ UNCHANGED <<ddVars, scVars, faVars>>

ViewNext ==
    \/ RecordLaunchCall
    \/ \E limit \in 0..MaxLimit : GetLaunchHistory(limit)

SpecView == HiInit /\ [][ViewNext]_vars

SpecHistory == HiInit /\ [][HiNext]_vars

\* The agent built with no config (_load_config), with the scanner's keys
\* added by its caller, and with the launcher's keys added as well
FaInit ==
    /\ FaStart
    /\ debug_mode \in BOOLEAN
    /\ config_keys \in {AgentDefaultKeys,
                        AgentDefaultKeys \cup ScannerOnlyKeys,
                        AgentDefaultKeys \cup ScannerOnlyKeys \cup LauncherOnlyKeys}
    /\ LaStart
    /\ os_type = "windows"
    /\ config = DefaultConfig
    /\ monitor_task = config.monitor_processes
    /\ second = NoSecond
    /\ ScStart
    /\ cache_enabled = TRUE
    /\ DdStart
    /\ dd_max_apps = MaxAppsDefault

\* A notepad somebody else started
NotepadProcess == [pid |-> 1, exe |-> NotepadExe, name |-> Notepad \o ExeSuffix]

FaNext ==
    \/ \E data \in FaPayloads : FaReceive(data)
    \/ \E results \in FaScanInputs : FaWarmUp(results)
    \/ \E results \in FaScanInputs : FaGetApps(results)
    \/ \E results \in FaScanInputs : FaRefreshApps(results)
    \/ FaGetRunningApps
    \/ FaGetLaunchHistory
    \/ FaGetStats
    \/ FaUnknown
    \/ \E results \in FaScanInputs : FaTerminateApp(results)
    \/ \E results \in FaScanInputs : FaLaunchBegin(results)
    \/ FaLaunchCall
    \/ \E outcome \in SpawnOutcomes : Attempt(outcome)
    \/ StartupWaited
    \/ BackoffDone
    \/ FaLaunchEnd
    \/ fa_pc # "launching" /\ LaunchReturn
    \/ FaReturn
    \/ MonitorProcesses
    \/ ProcessStarts(NotepadProcess)
    \/ \E p \in processes : ProcessExits(p)

SpecFacade == FaInit /\ [][FaNext]_vars

(***************************************************************************)
(* Claims about the scan cache                                             *)
(***************************************************************************)
Scanning == {c \in Callers : pc[c] = "scanning"}

\* C1: a caller of ensure_scan_completed(force_refresh=False) that entered
\* while an unforced scan (cache empty or TTL-expired) was in flight waits
\* for that scan and returns without starting another _scan_all_sources.
C1_SingleFlight ==
    \A c \in Callers : joined[c] => pc[c] # "scanning"

\* C2: at no instant are two executions of _scan_all_sources in progress,
\* whatever the interleaving of ensure_scan_completed, get_apps, find_app,
\* get_app_info_for_llm and refresh_apps; a scan runs only with the lock held.
C2_ScanMutex ==
    /\ Cardinality(Scanning) <= 1
    /\ Scanning # {} => scan_lock.locked

\* One caller scans while another is queued on the lock
C2_Witness ==
    \E c, d \in Callers :
        /\ pc[c] = "scanning"
        /\ pc[d] = "waiting"
        /\ scan_lock.waiters = <<d>>

\* C3: with caching enabled and the cache READY, a get_apps(force_refresh=
\* False) call made less than cache_ttl after the last scan completed starts
\* no scan, and one made more than cache_ttl after it starts exactly one.
\* (The calls measured are those made while no other call is in progress.)
C3_TtlBehaviour ==
    /\ \A c \in Callers :
          (measured[c] /\ current_time[c] - last_done < CacheTtl)
              => pc[c] # "scanning"
    /\ \A c \in Callers :
          (measured[c] /\ current_time[c] - last_done > CacheTtl)
              => pc[c] = "scanning"
    /\ ~ttl_stale_skipped

(***************************************************************************)
(* Claims about the aggregator                                             *)
(***************************************************************************)
\* The permutations of 1..n, and a list rearranged by one
PermsOf(n) ==
    {f \in [1..n -> 1..n] : \A i, j \in 1..n : i # j => f[i] # f[j]}

Permute(apps, f) == [i \in DOMAIN apps |-> apps[f[i]]]

RangeOf(seq) == {seq[i] : i \in DOMAIN seq}

\* C4: the list returned by _process_and_deduplicate holds no two records
\* with an identical path.
C4_PathUnique ==
    dd_pc = "done" =>
        \A i, j \in DOMAIN dd_result :
            i # j => dd_result[i].path # dd_result[j].path

\* Two candidates with different names share an existing path, and one survives
C4_Witness ==
    /\ dd_pc = "done"
    /\ Len(dd_result) >= 1
    /\ \E i, j \in DOMAIN dd_apps :
          /\ i < j
          /\ dd_apps[i].path = dd_apps[j].path
          /\ PathExists(dd_apps[i].path)
          /\ Lower(dd_apps[i].name) # Lower(dd_apps[j].name)

C6_Collision(i, j) ==
    /\ IsShortcut(dd_apps[i])
    /\ dd_apps[j].source = "registry_uninstall"
    /\ Lower(dd_apps[i].name) = Lower(dd_apps[j].name)
    /\ PathExists(dd_apps[i].path)
    /\ PathExists(dd_apps[j].path)

\* C6 as stated: whenever the list holds a shortcut record and a
\* registry-uninstall record of the same case-insensitive name, both paths
\* existing, the record surviving under that name is a shortcut one,
\* whatever the order and whatever the paths.
C6_AsStated ==
    dd_pc = "done" =>
        \A i, j \in DOMAIN dd_apps :
            C6_Collision(i, j) =>
                \A k \in DOMAIN dd_result :
                    Lower(dd_result[k].name) = Lower(dd_apps[i].name)
                        => IsShortcut(dd_result[k])

\* C6 amended: the same, provided no earlier record of the list carries the
\* shortcut record's path (the path filter runs before names are compared);
\* the name is present in the output unless max_apps cut the list.
C6_ShortcutWins ==
    dd_pc = "done" =>
        \A i, j \in DOMAIN dd_apps :
            (/\ C6_Collision(i, j)
             /\ \A e \in 1..(i - 1) : dd_apps[e].path # dd_apps[i].path)
            =>
                /\ Len(Survivors(dd_apps)) <= dd_max_apps =>
                      \E k \in DOMAIN dd_result :
                          Lower(dd_result[k].name) = Lower(dd_apps[i].name)
                /\ \A k \in DOMAIN dd_result :
                      Lower(dd_result[k].name) = Lower(dd_apps[i].name)
                          => IsShortcut(dd_result[k])

\* The registry record comes first, the shortcut record replaces it
C6_Witness ==
    /\ dd_pc = "done"
    /\ \E i, j \in DOMAIN dd_apps :
          /\ j < i
          /\ C6_Collision(i, j)
          /\ dd_apps[i].path # dd_apps[j].path
          /\ \E k \in DOMAIN dd_result : dd_result[k] = dd_apps[i]

\* Two records of equal source priority collide on a name
C7_EqualPriorityCollision ==
    \E i, j \in DOMAIN dd_apps :
        /\ i # j
        /\ Lower(dd_apps[i].name) = Lower(dd_apps[j].name)
        /\ GetSourcePriority(dd_apps[i].source) = GetSourcePriority(dd_apps[j].source)

\* Two records of the list carry the same existing path
C7_PathCollision ==
    \E i, j \in DOMAIN dd_apps :
        /\ i # j
        /\ dd_apps[i].path = dd_apps[j].path
        /\ PathExists(dd_apps[i].path)

\* max_apps cuts the list while two survivors tie on the sort key
C7_CutWithTie ==
    LET s == Survivors(dd_apps)
    IN /\ Len(s) > dd_max_apps
       /\ \E i, j \in DOMAIN s :
             i # j /\ Lower(s[i].display_name) = Lower(s[j].display_name)

\* Every permutation of the input list yields the same set of records
C7_SameForAllOrders ==
    \A f \in PermsOf(Len(dd_apps)) :
        RangeOf(ProcessAndDeduplicate(Permute(dd_apps, f), dd_max_apps))
            = RangeOf(dd_result)

\* C7 as stated: the set of surviving records is the same for every
\* permutation of the input, except when two records of equal source
\* priority collide on a name.
C7_AsStated ==
    (dd_pc = "done" /\ ~C7_EqualPriorityCollision) => C7_SameForAllOrders

\* C7 amended: ... except when two records of equal source priority collide
\* on a name, when two records carry the same existing path, or when
\* max_apps cuts the list while two survivors have the same case-insensitive
\* display name.
C7_OrderIndependent ==
    (/\ dd_pc = "done"
     /\ ~C7_EqualPriorityCollision
     /\ ~C7_PathCollision
     /\ ~C7_CutWithTie) => C7_SameForAllOrders

\* A name collision of different priorities, resolved the same in any order
C7_Witness ==
    /\ dd_pc = "done"
    /\ ~C7_EqualPriorityCollision
    /\ ~C7_PathCollision
    /\ ~C7_CutWithTie
    /\ Len(dd_result) >= 1
    /\ \E i, j \in DOMAIN dd_apps :
          /\ i < j
          /\ Lower(dd_apps[i].name) = Lower(dd_apps[j].name)
          /\ PathExists(dd_apps[i].path)
          /\ PathExists(dd_apps[j].path)
          /\ GetSourcePriority(dd_apps[i].source) < GetSourcePriority(dd_apps[j].source)

(***************************************************************************)
(* Claims about the launcher                                               *)
(***************************************************************************)
\* The first n strategy invocations of this call all raised
RaisedUpTo(n) == \A i \in 1..n : la_outcomes[i].kind = "raise"

\* C8: launch retry bound.  With max_retries = M and the application
\* resolved, valid and not found running: the strategy is never invoked more
\* than M times; no invocation follows one that returned; when invocations
\* 1..k-1 raised and invocation k returned SUCCESS, launch_app returns SUCCESS
\* with exactly k invocations made; when all M invocations raised, launch_app
\* returns FAILED with the text of the last exception and exactly M
\* invocations made.
C8_RetryBound ==
    LET k == Len(la_outcomes)
        M == config.max_retries
    IN /\ k <= M
       /\ (k >= 1 /\ la_outcomes[k].kind = "return")
              => la_pc \in {"startup_wait", "done"} /\ RaisedUpTo(k - 1)
       /\ (la_pc \in {"attempt", "backoff"}) => k < M /\ RaisedUpTo(k)
       /\ (la_pc = "done" /\ app_info # NoneApp) =>
              /\ (k >= 1 /\ la_outcomes[k].kind = "return"
                         /\ la_outcomes[k].result = "success")
                     => status.result = "success"
              /\ RaisedUpTo(k) =>
                     /\ k = M
                     /\ status.result = "failed"
                     /\ M >= 1 => status.error_details = la_outcomes[k].text

\* launch_app returned SUCCESS from the last allowed attempt after two
\* attempts that raised
C8_Witness ==
    /\ la_pc = "done"
    /\ config.max_retries = 3
    /\ Len(la_outcomes) = 3
    /\ RaisedUpTo(2)
    /\ la_outcomes[1].text # la_outcomes[2].text
    /\ status.result = "success"
    /\ status.process_id # 0

C10_HistoryCap ==
    /\ [](Len(launch_history) <= HistoryCap)
    /\ [][recorded' = recorded + 1 =>
            /\ launch_history'[Len(launch_history')].timestamp = recorded'
            /\ IF Len(launch_history) = HistoryCap
               THEN /\ Len(launch_history') = HistoryKeep
                    /\ \A i \in 1..(HistoryKeep - 1) :
                           launch_history'[i] =
                               launch_history[HistoryCap - HistoryKeep + 1 + i]
               ELSE /\ Len(launch_history') = Len(launch_history) + 1
                    /\ SubSeq(launch_history', 1, Len(launch_history))
                           = launch_history]_vars

\* The history right after its first trim
C10_Witness ==
    /\ recorded = HistoryCap + 1
    /\ Len(launch_history) = HistoryKeep
    /\ launch_history[1].timestamp = HistoryCap + 2 - HistoryKeep
    /\ launch_history[HistoryKeep].timestamp = HistoryCap + 1

(***************************************************************************)
(* Claims about the facade                                                 *)
(***************************************************************************)
\* C11: the facade never crashes.  For every payload and every handler
\* outcome handle_handoff ends by returning an envelope that carries the
\* request's request_id and a status; it never ends by raising.
C11_NeverCrashes ==
    /\ fa_pc # "raised"
    /\ fa_pc = "returned" =>
           /\ fa_response.request_id = fa_request_id
           /\ fa_response.status # "none"

\* C12: the request counters stay consistent.  Once a handle_handoff call
\* is over, total_requests = successful_requests + failed_requests.
C12_CountersConsistent ==
    fa_pc \in {"idle", "returned", "raised"} =>
        stats.total_requests = stats.successful_requests + stats.failed_requests

\* C13: end to end through the facade.  With the scanners yielding the one
\* record notepad, a list request returns success with total_count = 1 and
\* notepad in apps; a launch request for notepad without options, notepad
\* not running and its process starting, returns success with status
\* app_started and a process id.
C13_EndToEnd ==
    /\ (fa_pc = "returned" /\ fa_data.tool_name = "list") =>
           /\ fa_response.success
           /\ fa_response.total_count = 1
           /\ \E i \in DOMAIN fa_response.apps : fa_response.apps[i] = Notepad
    /\ (/\ fa_pc = "returned"
        /\ la_pc \in {"done", "raised"}
        /\ fa_data.tool_name = "launch"
        /\ fa_data.app = Notepad
        /\ ~fa_data.elevated
        /\ la_matching = {}
        /\ \A i \in DOMAIN la_outcomes : la_outcomes[i].result = "success") =>
           /\ fa_response.success
           /\ fa_response.status = "app_started"
           /\ fa_response.process_id # 0

\* C14: all concurrent callers share one scan, force_refresh=True included:
\* a caller that entered ensure_scan_completed while another caller's scan
\* was in flight never runs _scan_all_sources itself.
C14_SharedScan ==
    \A c \in Callers : overlapped[c] => pc[c] # "scanning"

\* The forced caller of C14 that waited for a scan and then scans again
\* although no time has passed since it entered.
C14_ForcedRescan ==
    \E c \in Callers :
        /\ overlapped[c] /\ force_refresh[c]
        /\ pc[c] = "scanning"
        /\ now = current_time[c]

\* C15: when refresh_apps completes, _last_scan_time is the time of that
\* refresh, so that a get_apps(force_refresh=False) made within cache_ttl
\* of it starts no scan.
C15_RefreshResetsTtl ==
    [][\A c \in Callers :
          (pc[c] = "scanning" /\ op[c] = "refresh" /\ pc'[c] = "idle")
              => last_scan_time' = now]_vars

\* An unforced call made right after a refresh completed scans again
C15_RescanAfterRefresh ==
    \E c \in Callers :
        /\ measured[c] /\ pc[c] = "scanning"
        /\ current_time[c] = last_done
        /\ last_scan_time # last_done

\* C20: with caching enabled, once a scan has completed the cache file
\* holds that scan's records under that scan's time, and a _load_cache
\* made less than cache_ttl after the scan completed returns True and
\* restores exactly those records and their name index.
C20_CacheRoundTrip ==
    /\ [](cache_enabled /\ last_done > 0 =>
              /\ cache_file.exists /\ cache_file.valid
              /\ cache_file.apps = apps_cache
              /\ cache_file.timestamp \in {last_scan_time, last_done})
    /\ [][(LoadCache /\ cache_enabled /\ last_done > 0
                     /\ now - last_done < CacheTtl)
              => /\ loaded' = "true"
                 /\ apps_cache' = apps_cache
                 /\ app_name_map' = app_name_map]_vars

\* _load_cache called at the very time a scan that found records completed
\* returns False
C20_LoadMisses ==
    /\ cache_enabled /\ loaded = "false"
    /\ apps_cache # <<>> /\ now = last_done

\* The exception whose text an attempt recorded
RaisedError(o) == CHOOSE e \in CrossExceptions \cup {NoError} : Str(e) = o.text

\* C16: CrossPlatformAppLauncher.launch_app tries up to max_retries times
\* and returns FAILED, carrying the last exception, only after all
\* max_retries attempts raised.
C16_CrossRetries ==
    (la_pc = "done" /\ status.result = "failed") =>
        /\ Len(la_outcomes) = config.max_retries
        /\ \A i \in DOMAIN la_outcomes : la_outcomes[i].kind = "raise"
        /\ status.error_details = la_outcomes[Len(la_outcomes)].text

\* launch_app returned FAILED after one attempt that raised
C16_FailedAtOnce ==
    /\ la_pc = "done" /\ status.result = "failed"
    /\ Len(la_outcomes) = 1 /\ la_outcomes[1].kind = "raise"
    /\ config.max_retries > 1

\* C17: whatever the strategy, a PermissionError of the start gives
\* ACCESS_DENIED, a FileNotFoundError gives NOT_FOUND and any other
\* exception gives FAILED.
C17_ErrorTaxonomy ==
    (la_pc = "done" /\ la_outcomes # <<>>) =>
        LET e == RaisedError(la_outcomes[Len(la_outcomes)])
        IN /\ e.type = "PermissionError" => status.result = "access_denied"
           /\ e.type = "FileNotFoundError" => status.result = "not_found"
           /\ e.type = "OSError" => status.result = "failed"

\* On Windows a FileNotFoundError of the start ends in FAILED
C17_NotFoundAsFailed ==
    /\ la_pc = "done" /\ os_type = "windows" /\ la_outcomes # <<>>
    /\ RaisedError(la_outcomes[Len(la_outcomes)]).type = "FileNotFoundError"
    /\ status.result = "failed"

\* C19: once terminate_app(name) has returned SUCCESS, running_processes
\* holds no entry for that application.
C19_TerminateCleansUp ==
    (/\ fa_pc = "returned"
     /\ fa_data.tool_name = "terminate"
     /\ fa_response.success)
        => \A r \in running_processes : r.path # FindAppInfo(fa_data.app).path

\* terminate_app returned SUCCESS, the launched process is gone and its
\* entry is still in running_processes
C19_StaleEntry ==
    /\ fa_pc = "returned"
    /\ fa_data.tool_name = "terminate"
    /\ fa_response.success
    /\ \E r \in running_processes :
           /\ r.path = FindAppInfo(fa_data.app).path
           /\ \A p \in processes : p.pid # r.pid

\* C18: whenever launch_app returns SUCCESS with monitor_processes enabled,
\* whatever the launch method (elevated launches included), running_processes
\* holds an entry for the launched process and launch_history has gained
\* exactly one entry for that launch (_record_launch writes history only
\* with log_launch_details on).
C18_SuccessBookkeeping ==
    (la_pc = "done" /\ status.result = "success" /\ config.monitor_processes) =>
        /\ \E r \in running_processes :
               r.pid = status.process_id /\ r.path = app_info.path
        /\ config.log_launch_details =>
               Cardinality({i \in DOMAIN launch_history :
                               /\ launch_history[i].result = "success"
                               /\ launch_history[i].process_id = status.process_id}) = 1

\* An elevated launch returned SUCCESS, history written, and running_processes
\* is empty although monitoring is on
C18_ElevatedUntracked ==
    /\ la_pc = "done" /\ status.result = "success"
    /\ status.launch_method = "elevated"
    /\ config.monitor_processes /\ config.log_launch_details
    /\ launch_history # <<>>
    /\ running_processes = {}

\* C21: once _load_cache has returned True at startup (no scan made yet, no
\* call in progress) the scan cache is READY: an
\* ensure_scan_completed(force_refresh=False) entered while the loaded data
\* is younger than cache_ttl would start no scan.
C21_LoadedCacheIsReady ==
    [][(/\ LoadCache /\ loaded' = "true"
        /\ last_done = 0 /\ \A c \in Callers : pc[c] = "idle")
          => /\ scan_completed'
             /\ ~(cache_enabled' /\ now' - last_scan_time' > CacheTtl)]_vars

\* A new scanner loaded a fresh cache file and the unforced call that
\* follows, at the time of the file's timestamp, scans all the same
C21_RescanAfterLoad ==
    \E c \in Callers :
        /\ loaded = "true" /\ last_done = 0
        /\ pc[c] = "scanning" /\ op[c] = "ensure" /\ ~force_refresh[c]
        /\ current_time[c] = cache_file.timestamp

\* The results of the scanners that did not raise
Kept(results) == SelectSeq(results, LAMBDA r : ~r.failed)

\* C22: when source scanners raise during _scan_all_sources the scan still
\* completes and returns to its caller, the cache holds the deduplicated
\* records of the scanners that did not raise, and error_count grows by one
\* for every scanner that raised.
C22_FailureIsolation ==
    /\ [](gathered # <<>> =>
             /\ apps_cache = ProcessAndDeduplicate(GatheredApps(Kept(gathered)),
                                                   MaxAppsDefault)
             /\ app_name_map = BuildNameMap(apps_cache, Len(apps_cache)))
    /\ [][pc[1] = "scanning" /\ pc'[1] # "scanning"
             => /\ pc'[1] = "idle" /\ scan_completed'
                /\ error_count' =
                       error_count + Len(gathered') - Len(Kept(gathered'))]_vars

\* A scan in which the first scanner raised and a later one found a record
\* has completed: the record is in the cache and the error is counted
C22_Witness ==
    /\ scan_completed /\ pc[1] = "idle"
    /\ error_count = 1 /\ Len(gathered) > 1 /\ gathered[1].failed
    /\ apps_cache # <<>>

\* The index find_app searched, and containment ignoring case either way
FiIndex == BuildNameMap(dd_result, Len(dd_result))

Overlap(a, b) == Contains(Lower(a), Lower(b)) \/ Contains(Lower(b), Lower(a))

FiCandidate(i) ==
    \/ Overlap(dd_find.name, FiIndex[i][1])
    \/ Overlap(dd_find.name, FiIndex[i][2].display_name)

\* C23: for a query with no exact key in the name index, find_app(q,
\* fuzzy=True) returns a record exactly when some indexed key or some
\* record's display name contains q or is contained in q, ignoring case;
\* the returned record is one for which that containment holds; with no
\* containment, and with fuzzy=False, it returns None.
C23_FuzzyContainment ==
    (dd_pc = "found" /\ ~DictHas(FiIndex, Lower(dd_find.name))) =>
        /\ dd_find.fuzzy =>
              /\ dd_find.found # <<>> <=> \E i \in DOMAIN FiIndex : FiCandidate(i)
              /\ dd_find.found # <<>> =>
                     \E i \in DOMAIN FiIndex :
                         FiCandidate(i) /\ FiIndex[i][2] = dd_find.found[1]
        /\ ~dd_find.fuzzy => dd_find.found = <<>>

\* The query "b" has no exact key and finds the record named "ab", the only
\* record of the index, as "chrome" finds "Google Chrome"
C23_Witness ==
    /\ dd_pc = "found" /\ dd_find.fuzzy
    /\ dd_find.name = <<"b">>
    /\ Len(dd_result) = 1
    /\ dd_find.found = <<AppInfo(<<"a", "b">>, <<"p">>, "registry_app_paths", <<>>)>>

\* C24: a launch request without an application name (the "app" key absent
\* or empty) is answered with a selection list: success is true, the status
\* is app_selection, the list holds the names get_app_info_for_llm gives,
\* and nothing is launched.  Stated for a configuration the scanner accepts.
C24_SelectionList ==
    (/\ fa_pc = "returned"
     /\ fa_data.kind = "dict" /\ fa_data.tool_name = "launch" /\ fa_data.app = <<>>
     /\ "scan_app_paths" \in config_keys)
    => /\ fa_response.success
       /\ fa_response.status = "app_selection"
       /\ fa_response.apps = AppInfoForLlm(apps_cache).apps
       /\ la_pc = "idle"

\* The scan behind the selection list went through and the answer is the
\* error envelope all the same
C24_SelectionIsError ==
    /\ fa_pc = "returned"
    /\ fa_data.kind = "dict" /\ fa_data.tool_name = "launch" /\ fa_data.app = <<>>
    /\ scan_completed /\ apps_cache # <<>>
    /\ ~fa_response.success /\ fa_response.status = "error"

\* A payload without an operation name, with an operation name that is no
\* string, or that is no JSON object
Malformed(data) ==
    \/ data.kind # "dict"
    \/ data.tool_name \in {"<absent>", "<empty>", "<number>"}

\* C25: malformed payloads are rejected before dispatch.  For every payload
\* that lacks an operation name or whose operation name or payload has the
\* wrong type, handle_handoff returns an error envelope with error_code
\* INVALID_REQUEST, invokes no operation handler, and counts the request as
\* failed.
C25_RejectedBeforeDispatch ==
    [][(fa_pc = "idle" /\ fa_pc' # "idle" /\ Malformed(fa_data'))
          => /\ fa_pc' = "returned"
             /\ ~fa_response'.success
             /\ fa_response'.status = "error"
             /\ fa_response'.error_code = "INVALID_REQUEST"
             /\ stats'.failed_requests = stats.failed_requests + 1
             /\ stats'.successful_requests = stats.successful_requests]_vars

\* A payload that is no object ends handle_handoff by an exception, counted
\* in total_requests only
C25_NoEnvelope ==
    /\ fa_pc = "raised"
    /\ fa_data.kind # "dict"
    /\ stats.total_requests = 1 /\ stats.failed_requests = 0

\* The same statement for the payloads that are JSON objects
C25_ObjectsRejected ==
    [][(fa_pc = "idle" /\ fa_pc' # "idle" /\ Malformed(fa_data')
        /\ fa_data'.kind = "dict")
          => /\ fa_pc' = "returned"
             /\ fa_response'.error_code = "INVALID_REQUEST"
             /\ stats'.failed_requests = stats.failed_requests + 1]_vars

\* handle_handoff takes a request for an unrecognized operation
UnknownReceived ==
    fa_pc = "idle" /\ fa_pc' = "received" /\ fa_data'.tool_name = "unknown"

\* ... and answers it
UnknownAnswered ==
    fa_pc = "received" /\ fa_data.tool_name = "unknown" /\ fa_pc' # "received"

UnknownEnvelope ==
    /\ fa_pc' = "returned"
    /\ ~fa_response'.success
    /\ fa_response'.status = "error"
    /\ stats'.failed_requests = stats.failed_requests + 1
    /\ stats'.successful_requests = stats.successful_requests

C27_MostRecent ==
    history_view.called =>
        LET n == Len(launch_history)
            k == IF history_view.limit < n THEN history_view.limit ELSE n
        IN /\ Len(history_view.entries) = k
           /\ history_view.entries = SubSeq(launch_history, n - k + 1, n)

\* get_launch_history(0) on a history of two entries returns both
C27_LimitZeroReturnsAll ==
    /\ history_view.called /\ history_view.limit = 0
    /\ Len(launch_history) = 2
    /\ history_view.entries = launch_history

\* The same statement for limit >= 1
C27_PositiveLimits ==
    (history_view.called /\ history_view.limit >= 1) =>
        LET n == Len(launch_history)
            k == IF history_view.limit < n THEN history_view.limit ELSE n
        IN history_view.entries = SubSeq(launch_history, n - k + 1, n)

\* C28: already_running reaches the caller with the process id.  When a
\* launch request hits an application that is already running, the facade
\* response has status already_running and its data carries the process id
\* of the existing process.
C28_AlreadyRunningPid ==
    (/\ fa_pc = "returned" /\ fa_data.tool_name = "launch"
     /\ la_pc = "done" /\ status.result = "already_running")
    => /\ fa_response.status = "already_running"
       /\ fa_response.process_id # 0
       /\ fa_response.process_id = status.process_id

\* The launcher found the running notepad, pid 1, and the response names
\* the status but no process id
C28_PidDropped ==
    /\ fa_pc = "returned" /\ fa_data.tool_name = "launch"
    /\ la_pc = "done" /\ status.result = "already_running"
    /\ status.process_id = NotepadProcess.pid
    /\ fa_response.status = "already_running"
    /\ fa_response.process_id = 0

\* str(e) of the exceptions a start request can raise
ExceptionTexts == {Str(e) : e \in Exceptions}

\* C29: exception text is exposed only in debug mode.  With debug_mode off
\* the response to a failed launch request is the same whatever the text
\* of the exception that caused the failure: its error_details carries no
\* captured exception text.
C29_NoTextWithoutDebug ==
    (/\ fa_pc = "returned" /\ fa_data.tool_name = "launch"
     /\ ~fa_response.success
     /\ ~debug_mode)
    => fa_response.error_details \notin ExceptionTexts

\* Two failed launches with debug_mode off whose responses differ by the
\* text of the last exception only: here the one with text e1
C29_TextLeaks ==
    /\ fa_pc = "returned" /\ fa_data.tool_name = "launch"
    /\ ~debug_mode
    /\ fa_response.status = "failed"
    /\ Len(la_outcomes) = MaxRetries
    /\ fa_response.error_details = "e1"

\* The priorities the table is said to hold
StatedPriority(source) ==
    CASE source \in {"desktop_entry", "applications_directory"} -> 5
      [] source \in {"shortcut_start_menu", "shortcut_desktop", "shortcut_common"} -> 4
      [] source = "registry_app_paths" -> 3
      [] source = "registry_uninstall" -> 2
      [] source \in {"registry_user_uninstall", "bin_directory"} -> 1
      [] OTHER -> 0

\* C30: the source priority table.  _get_source_priority returns 5 for
\* desktop-entry and applications-directory, 4 for every shortcut source, 3
\* for registry-app-paths, 2 for registry-uninstall, 1 for
\* registry-user-uninstall and for bin-directory, 0 for an unrecognized
\* source; a registry-uninstall record wins a name collision against a
\* bin-directory record in either input order.
C30_PriorityTable ==
    dd_pc = "done" =>
        /\ \A i \in DOMAIN dd_apps :
               CrossGetSourcePriority(dd_apps[i].source) = StatedPriority(dd_apps[i].source)
        /\ CrossGetSourcePriority("other") = 0
        /\ (/\ Len(dd_apps) = 2
            /\ {dd_apps[1].source, dd_apps[2].source} = {"registry_uninstall", "bin_directory"}
            /\ dd_apps[1].path # dd_apps[2].path)
           => /\ Len(dd_result) = 1
              /\ dd_result[1].source = "registry_uninstall"

\* The bin-directory record came first and survived the collision
C30_BinDirectoryWins ==
    /\ dd_pc = "done" /\ Len(dd_apps) = 2
    /\ dd_apps[1].source = "bin_directory" /\ dd_apps[2].source = "registry_uninstall"
    /\ dd_apps[1].path # dd_apps[2].path
    /\ dd_result = <<dd_apps[1]>>

\* The outcomes launch_app settles before its while loop
PreCheckResults == {"not_found", "invalid_path", "already_running"}

\* C31 as stated: a launch_app call that ends in NOT_FOUND, INVALID_PATH,
\* ALREADY_RUNNING or in a negative status the strategy returned, such as
\* ACCESS_DENIED, has invoked the launch strategy at most once.
C31_AsStated ==
    (la_pc = "done" /\ status.result \in PreCheckResults \cup {"access_denied"})
    => Len(la_outcomes) <= 1

\* C31 amended: clean negative outcomes are never retried.  A call that
\* ends in NOT_FOUND, INVALID_PATH or ALREADY_RUNNING never invoked the
\* strategy; a status the strategy returned ends the call at once, with
\* that status and without a backoff sleep or another invocation.  The
\* attempts before it that raised were retried.
C31_NegativeNotRetried ==
    /\ (la_pc = "done" /\ status.result \in PreCheckResults) => la_outcomes = <<>>
    /\ \A i \in DOMAIN la_outcomes :
           la_outcomes[i].kind = "return" =>
               /\ i = Len(la_outcomes)
               /\ la_pc \in {"done", "startup_wait"}
               /\ la_pc = "done" => status.result = la_outcomes[i].result
    /\ (la_pc = "done" /\ status.result = "access_denied") =>
           /\ la_outcomes # <<>>
           /\ la_outcomes[Len(la_outcomes)].kind = "return"
           /\ \A i \in 1..(Len(la_outcomes) - 1) : la_outcomes[i].kind = "raise"

\* ACCESS_DENIED returned by the second invocation, after the first raised
C31_Witness ==
    /\ la_pc = "done" /\ status.result = "access_denied"
    /\ Len(la_outcomes) = 2
    /\ la_outcomes[1].kind = "raise"
    /\ la_outcomes[2].kind = "return"
    /\ retry_count = 1

\* Records i < j of the list with the same case-insensitive name, equal
\* source priority and different existing paths
C32_Tie(i, j) ==
    /\ i < j
    /\ Lower(dd_apps[i].name) = Lower(dd_apps[j].name)
    /\ GetSourcePriority(dd_apps[i].source) = GetSourcePriority(dd_apps[j].source)
    /\ dd_apps[i].path # dd_apps[j].path
    /\ PathExists(dd_apps[i].path)
    /\ PathExists(dd_apps[j].path)

DeadEntry(pid) ==
    /\ \E r \in running_processes : r.pid = pid
    /\ ~\E p \in processes : p.pid = pid

SpawnedPids == FirstSpawnedPid..(FirstSpawnedPid + MaxLaunchCalls)

\* C33: monitor eviction liveness.  For a launcher created with
\* monitor_processes enabled, once an entry is registered in
\* running_processes and its process has exited, the entry is eventually
\* removed, under fair scheduling of the event loop, for both launchers.
C33_EventuallyEvicted ==
    \A pid \in SpawnedPids :
        (config.monitor_processes /\ DeadEntry(pid))
            ~> ~(\E r \in running_processes : r.pid = pid)

\* A launcher with monitor_processes on and no monitor task holds the entry
\* of an exited process
C33_NeverEvicted ==
    /\ config.monitor_processes /\ ~monitor_task
    /\ DeadEntry(FirstSpawnedPid)
    /\ la_pc = "idle"

\* C34: ensure_scan_completed terminates in state READY.  Provided each
\* scan terminates, every call of ensure_scan_completed, in any
\* interleaving with other ensure_scan_completed and refresh_apps calls,
\* eventually returns, and at return the cache holds the result of a
\* completed scan and the caller does not hold the lock; no caller stays
\* blocked on the scan lock forever.
C34_TerminatesReady ==
    /\ \A c \in Callers : (pc[c] # "idle") ~> (pc[c] = "idle")
    /\ [][\A c \in Callers :
              (pc[c] # "idle" /\ pc'[c] = "idle") =>
                  /\ scan_completed'
                  /\ last_done' > 0
                  /\ app_name_map' = BuildNameMap(apps_cache', Len(apps_cache'))
                  /\ ~scan_lock'.locked]_vars

\* One call returned from its scan while the other still waits for the lock
C34_Witness ==
    /\ pc[1] = "idle" /\ pc[2] = "waiting"
    /\ op[2] = "ensure"
    /\ scan_completed /\ last_done > 0
    /\ ~scan_lock.locked


(***************************************************************************)
(* Scans that raise                                                        *)
(***************************************************************************)
FailNext ==
    \/ \E c \in Callers, force \in BOOLEAN : EnsureScanCompleted(c, force)
    \/ \E c \in Callers : RefreshApps(c)
    \/ \E c \in Callers : LockGranted(c)
    \/ \E c \in Callers, results \in ScanInputs : ScanAllSourcesDone(c, results)
    \/ \E c \in Callers : ScanRaised(c)
    \/ Tick

SpecFail == Init /\ [][FailNext]_vars

\* The step in which the scan of caller c raises
RaisedStep(c) == pc[c] = "scanning" /\ pc'[c] = "idle" /\ scan_raised'

\* What the last scan that completed left in the cache
LastGoodCache == ProcessAndDeduplicate(GatheredApps(gathered), MaxAppsDefault)

IxRecords ==
    { AppInfo(<<"a">>, <<"p">>, "registry_app_paths", <<"b">>),
      AppInfo(<<"b">>, <<"q">>, "registry_app_paths", <<"c">>),
      AppInfo(<<"x">>, <<"d", "/", "c">>, "registry_uninstall", <<>>) }

IxInit ==
    /\ dd_apps \in UNION {[1..n -> IxRecords] : n \in 0..MaxListLen}
    /\ dd_result = <<>>
    /\ dd_pc = "build"
    /\ dd_find = [name |-> <<>>, fuzzy |-> FALSE, found |-> <<>>]
    /\ dd_max_apps = MaxAppsDefault
    /\ ScStart
    /\ cache_enabled = TRUE
    /\ LaStart
    /\ os_type = "windows"
    /\ config = DefaultConfig
    /\ monitor_task = config.monitor_processes
    /\ second = NoSecond
    /\ FaStart
    /\ config_keys = AgentDefaultKeys \cup ScannerOnlyKeys \cup LauncherOnlyKeys
    /\ debug_mode = FALSE

\* app_names = [app.display_name for app in self.apps_cache]
ListedNames(apps) == {apps[i].display_name : i \in DOMAIN apps}

IndexNext ==
    \/ DdRun
    \/ \E name \in ListedNames(dd_result), fuzzy \in BOOLEAN : DdFindApp(name, fuzzy)

SpecIndex == IxInit /\ [][IndexNext]_vars

\* C36: every display name that list-apps returns after a scan is resolved
\* by find_app to a record whose display name is the queried one.
C36_ListedResolvesToItself ==
    (dd_pc = "found" /\ dd_find.name \in ListedNames(dd_result)) =>
        /\ dd_find.found # <<>>
        /\ dd_find.found[1].display_name = dd_find.name

\* The listed name "b" resolved to the record that is listed as "c"
C36_ResolvesToOther ==
    /\ dd_pc = "found"
    /\ dd_find.name = <<"b">>
    /\ AppInfo(<<"a">>, <<"p">>, "registry_app_paths", <<"b">>) \in {dd_result[i] : i \in DOMAIN dd_result}
    /\ dd_find.found = <<AppInfo(<<"b">>, <<"q">>, "registry_app_paths", <<"c">>)>>


(***************************************************************************)
(* Two launch_app calls in one event loop                                  *)
(***************************************************************************)
RaceInit ==
    /\ LaStart
    /\ os_type = "windows"
    /\ config \in {[DefaultConfig EXCEPT !.max_retries = r, !.wait_for_startup = w,
                                         !.monitor_processes = m] :
                       r \in 1..MaxRetries, w \in BOOLEAN, m \in BOOLEAN}
    /\ monitor_task = config.monitor_processes
    /\ second = NoSecond
    /\ ScScanned
    /\ DdStart
    /\ dd_max_apps = MaxAppsDefault
    /\ FaStart
    /\ config_keys = AgentDefaultKeys \cup ScannerOnlyKeys \cup LauncherOnlyKeys
    /\ debug_mode = FALSE

RaceNext ==
    \/ second.pc # "attempt" /\ \E app_name \in LaNames : LaunchApp(app_name, FALSE)
    \/ \E outcome \in SpawnOutcomes : Attempt(outcome)
    \/ second.pc # "attempt" /\ StartupWaited
    \/ second.pc # "attempt" /\ BackoffDone
    \/ \E app_name \in LaNames : SecondLaunchApp(app_name)
    \/ \E outcome \in SpawnOutcomes : SecondAttempt(outcome)
    \/ SecondStartupWaited
    \/ SecondBackoffDone

SpecRace == RaceInit /\ [][RaceNext]_vars

\* Both calls are over, they were for the same application, and a process
\* was spawned (no process exits in SpecRace)
BothDone ==
    /\ la_pc = "done" /\ second.pc = "done"
    /\ status.app_name = second.status.app_name
    /\ next_pid > FirstSpawnedPid

\* C37: with check_already_running enabled, two overlapping launch_app calls
\* for the same application, the spawned process staying alive, spawn
\* exactly one process, and the call that did not spawn it returns
\* ALREADY_RUNNING with its pid.
C37_AtMostOneSpawn ==
    BothDone =>
        /\ next_pid = FirstSpawnedPid + 1
        /\ {status.result, second.status.result} \subseteq {"success", "already_running"} =>
               \/ /\ status.result = "success"
                  /\ second.status.result = "already_running"
                  /\ second.status.process_id = status.process_id
               \/ /\ second.status.result = "success"
                  /\ status.result = "already_running"
                  /\ status.process_id = second.status.process_id

\* Both calls returned SUCCESS, each with a process of its own
C37_TwoSpawned ==
    /\ BothDone
    /\ status.result = "success" /\ second.status.result = "success"
    /\ status.process_id # second.status.process_id
    /\ {status.process_id, second.status.process_id} \subseteq {p.pid : p \in processes}


\* get_stats: total_launches = len(self.launch_history)
TotalLaunches == Len(launch_history)

\* _handle_get_launch_history: total_records = len(self.launcher.launch_history)
TotalRecords == Len(launch_history)

\* C38: over any sequence of launches, total_launches of get_stats and
\* total_records of get-launch-history never decrease and equal the number
\* of launches recorded since the launcher started.
C38_TotalsNeverDecrease ==
    /\ [](TotalLaunches = recorded /\ TotalRecords = recorded)
    /\ [][TotalLaunches' >= TotalLaunches /\ TotalRecords' >= TotalRecords]_vars

\* The launch after the hundredth was recorded and both totals are what the
\* trim kept
C38_TotalsDropped ==
    /\ recorded = HistoryCap + 1
    /\ TotalLaunches = HistoryKeep
    /\ TotalRecords = HistoryKeep


(***************************************************************************)
(* list-apps on caches of every size around the limits                     *)
(***************************************************************************)
\* The numbers of cached applications and the limits of the requests
ListSizes == {0, 1, 2, LlmLimit - 1, LlmLimit, LlmLimit + 1, LlmLimit + 2}
ListLimits == {0, 1, 2, LlmLimit - 1, LlmLimit, LlmLimit + 1, DefaultLimit}

\* The i-th of the two-letter names, in sorted order
ListName(i) ==
    <<LowerSeq[((i - 1) \div Len(LowerSeq)) + 1], LowerSeq[((i - 1) % Len(LowerSeq)) + 1]>>

\* apps_cache after a scan that found n applications, each with a file of
\* its own, sorted by display name
ListCache(n) ==
    [i \in 1..n |-> AppInfo(ListName(i), <<"d", "/">> \o ListName(i),
                            "registry_uninstall", <<>>)]

\* What _build_name_map makes of such a cache: the names are distinct, equal
\* to the display names and without .exe, so every record adds one key
ListIndex(apps) == [i \in DOMAIN apps |-> <<Lower(apps[i].name), apps[i]>>]

\* An initialized agent whose scanner has completed a scan
ListInit ==
    /\ initialized = TRUE
    /\ warmup = "done"
    /\ stats = [total_requests |-> 0, successful_requests |-> 0,
                failed_requests |-> 0, startup_time |-> StartTime]
    /\ fa_pc = "idle"
    /\ fa_data = NoPayload
    /\ fa_request_id = NoRequestId
    /\ fa_response = NoResponse
    /\ fa_calls = 0
    /\ debug_mode = FALSE
    /\ config_keys = AgentDefaultKeys \cup ScannerOnlyKeys \cup LauncherOnlyKeys
    /\ LaStart
    /\ os_type = "windows"
    /\ config = DefaultConfig
    /\ monitor_task = config.monitor_processes
    /\ second = NoSecond
    /\ DdStart
    /\ dd_max_apps = MaxAppsDefault
    /\ now = StartTime
    /\ cache_enabled = TRUE
    /\ scan_completed = TRUE
    /\ last_scan_time = StartTime
    /\ scan_lock = [locked |-> FALSE, waiters |-> <<>>]
    /\ apps_cache \in {ListCache(n) : n \in ListSizes}
    /\ app_name_map = ListIndex(apps_cache)
    /\ cache_file = JsonDump(0, apps_cache, 0)
    /\ pc = [c \in Callers |-> "idle"]
    /\ op = [c \in Callers |-> "ensure"]
    /\ force_refresh = [c \in Callers |-> FALSE]
    /\ current_time = [c \in Callers |-> 0]
    /\ last_done = StartTime
    /\ joined = [c \in Callers |-> FALSE]
    /\ overlapped = [c \in Callers |-> FALSE]
    /\ loaded = "none"
    /\ error_count = 0
    /\ gathered = <<>>
    /\ scan_raised = FALSE
    /\ measured = [c \in Callers |-> FALSE]
    /\ ttl_stale_skipped = FALSE

ListNext ==
    \/ \E r \in {"", "r1"} : FaReceive(DictPayload("list", r, <<>>, FALSE))
    \/ \E limit \in ListLimits : FaGetAppsLimit(limit)
    \/ FaReturn

SpecList == ListInit /\ [][ListNext]_vars

\* C39: in every list-apps response has_more is true exactly when
\* total_count is greater than the number of names returned in apps.
C39_HasMoreAccurate ==
    (fa_pc = "returned" /\ fa_response.status = "apps_list") =>
        (fa_response.has_more <=> fa_response.total_count > Len(fa_response.apps))

\* The default limit on a cache of one application more: a hundred names,
\* a total of a hundred and one, and has_more false
C39_MoreNotReported ==
    /\ fa_pc = "returned" /\ fa_response.status = "apps_list"
    /\ fa_response.total_count = LlmLimit + 1
    /\ Len(fa_response.apps) = DefaultLimit
    /\ ~fa_response.has_more

=============================================================================
